---- MODULE Spec2Model ----
(***************************************************************************)
(* Verification model of the haul-fleet calculation pipeline               *)
(*   src/src/core/haulCycleTime.ts   calculateHaulCycleTime,               *)
(*                                   calculateFleetSize                    *)
(*   src/src/core/haulProductivity.ts calculateHaulProductivity            *)
(*   src/src/lib/cost/calcCost.ts    calcCostBreakdown                     *)
(* and of what runs it                                                     *)
(*   src/src/app/CalculatorClient.tsx  the calculator component            *)
(*   src/unnamed/part_004              scenarioRepository (localStorage)   *)
(*   src/src/lib/auth/session.ts, src/src/app/api/auth, src/src/app/       *)
(*   page.tsx                          the session that guards the page    *)
(*                                                                         *)
(* A JavaScript number is modelled as an exact rational [num, den] in      *)
(* lowest terms with den > 0; the value a schema field lacks is Undefined. *)
(* The rounding of the individual IEEE-754 binary64 operations is not      *)
(* part of the model: every arithmetic operator below is exact.            *)
(***************************************************************************)
EXTENDS Integers, Sequences, FiniteSets, TLC

VARIABLES
  call,      \* the operation invoked (or the request sent) and its input
  result,    \* what it returned (or the response)
  cookie,    \* per browser, the value of its "session" cookie ("" = none)
  loggedIn,  \* per browser, whether its last login or logout exchange
             \* was a successful login
  leftOver,  \* the value the last run of calcCostBreakdown left in its
             \* accumulator prevFleet
  earlier,   \* a call of calcCostBreakdown made before, with its outcome
  ui,        \* the state of the mounted calculator component
  browser    \* what the browser keeps for the page: the localStorage item
             \* of the scenarios, and how many UUIDs it has handed out

vars == <<call, result, cookie, loggedIn, leftOver, earlier, ui, browser>>

authVars == <<cookie, loggedIn>>

costVars == <<leftOver, earlier>>

\* no call yet
NoCall == [fn |-> "none"]

\* the calculator component is not mounted
Unmounted == [mounted |-> FALSE]

\* no cost breakdown has run and no calculator is open
CostIdle == leftOver = [num |-> 0, den |-> 1] /\ earlier = NoCall

UiIdle == ui = Unmounted

\* the value of JavaScript's null
Null == [null |-> TRUE]

\* a browser without a stored scenario
EmptyBrowser == [localStorage |-> Null, uuids |-> 0]

BrowserIdle == browser = EmptyBrowser

(***************************************************************************)
(* Exact arithmetic on numbers                                             *)
(***************************************************************************)
Abs(x) == IF x < 0 THEN -x ELSE x

RECURSIVE GCD(_, _)
GCD(a, b) == IF b = 0 THEN a ELSE GCD(b, a % b)

\* the number n/d in lowest terms (d # 0)
Rat(n, d) ==
  LET g == GCD(Abs(n), Abs(d))
      s == IF d < 0 THEN -1 ELSE 1
  IN  [num |-> s * (n \div g), den |-> s * (d \div g)]

Num(n) == [num |-> n, den |-> 1]

Zero == Num(0)

One == Num(1)

IsInt(a) == a.den = 1

Add(a, b) == Rat(a.num * b.den + b.num * a.den, a.den * b.den)

Sub(a, b) == Rat(a.num * b.den - b.num * a.den, a.den * b.den)

\* cross-cancelled before multiplying, so that the products stay small
Mul(a, b) ==
  LET g1 == GCD(Abs(a.num), b.den)
      g2 == GCD(Abs(b.num), a.den)
  IN  Rat((a.num \div g1) * (b.num \div g2), (a.den \div g2) * (b.den \div g1))

\* a / b for b # 0
Div(a, b) == Mul(a, Rat(b.den, b.num))

Lt(a, b) == a.num * b.den < b.num * a.den

Le(a, b) == a.num * b.den <= b.num * a.den

Gt(a, b) == Lt(b, a)

Ge(a, b) == Le(b, a)

\* Math.floor, as an integer
Floor(a) == a.num \div a.den

Max(a, b) == IF Lt(a, b) THEN b ELSE a

\* a missing (undefined) value: no number has den = 0
Undefined == [num |-> 0, den |-> 0]

IsNumber(x) == x # Undefined

(***************************************************************************)
(* zod checks used by the schemas of src/src/core                          *)
(***************************************************************************)
\* the check with min(0) in place of gt(0)
NumberGt0_min0(x) == IsNumber(x) /\ Ge(x, Zero)

\* z.number().gt(0)
NumberGt0(x) == IsNumber(x) /\ Gt(x, Zero)

\* the check with gt(0) in place of min(0)
NumberMin0_positive(x) == IsNumber(x) /\ Gt(x, Zero)

\* z.number().min(0)
NumberMin0(x) == IsNumber(x) /\ Ge(x, Zero)

\* z.number().int().min(0)
NumberIntMin0(x) == IsNumber(x) /\ IsInt(x) /\ Ge(x, Zero)

\* the check with the upper bound left out
NumberMin0Max1_noMax(x) == IsNumber(x) /\ Ge(x, Zero)

\* z.number().min(0).max(1)
NumberMin0Max1(x) == IsNumber(x) /\ Ge(x, Zero) /\ Le(x, One)

\* the default taken for every falsy value (x || dflt), 0 included
WithDefault_falsy(x, dflt) == IF x = Undefined \/ x = Zero THEN dflt ELSE x

\* .optional().default(dflt): the default replaces a missing value and the
\* inner checks are applied to a supplied one only
WithDefault(x, dflt) == IF x = Undefined THEN dflt ELSE x

\* the outcome of a call that threw: the fields the error names
Failure(fields) == [ok |-> FALSE, error |-> fields]

Pending == [ok |-> FALSE, error |-> {"pending"}]

(***************************************************************************)
(* calculateFleetSize  (src/src/core/haulCycleTime.ts 63-139)              *)
(***************************************************************************)
DEFAULT_TOTAL_MINE_TONNES == 5000000

\* a threshold of one half, as Math.round has it
ROUNDING_THRESHOLD_half == Rat(50, 100)

ROUNDING_THRESHOLD == Rat(20, 100)

\* the issues FleetSizingInputSchema.parse raises
FleetSizingIssues(input) ==
  (IF input.totalMineTonnesPerYear # Undefined
      /\ ~NumberMin0(input.totalMineTonnesPerYear)
   THEN {"totalMineTonnesPerYear"} ELSE {})
  \cup
  (IF ~NumberGt0(input.tonnesPerTruckYear) THEN {"tonnesPerTruckYear"} ELSE {})

\* the value FleetSizingInputSchema.parse returns for an accepted input
FleetSizingInputSchema(input) ==
  [totalMineTonnesPerYear |->
     WithDefault(input.totalMineTonnesPerYear, Num(DEFAULT_TOTAL_MINE_TONNES)),
   tonnesPerTruckYear |-> input.tonnesPerTruckYear]

\* step 2, the threshold rounding with > in place of >=
RoundByThreshold_gt(rawTrucks) ==
  LET floorValue == Floor(rawTrucks)
      fractionalPart == Sub(rawTrucks, Num(floorValue))
  IN  IF Gt(fractionalPart, ROUNDING_THRESHOLD)
      THEN floorValue + 1
      ELSE floorValue

\* step 2: custom rounding rule
RoundByThreshold(rawTrucks) ==
  LET floorValue == Floor(rawTrucks)
      fractionalPart == Sub(rawTrucks, Num(floorValue))
  IN  IF Ge(fractionalPart, ROUNDING_THRESHOLD)
      THEN floorValue + 1
      ELSE floorValue

\* step 3 left out: the rounded count is returned as it is
SafetyRule_none(totalMineTonnesPerYear, trucksRequired) == trucksRequired

\* step 3: at least one truck for a positive production target
SafetyRule(totalMineTonnesPerYear, trucksRequired) ==
  IF Gt(totalMineTonnesPerYear, Zero) /\ trucksRequired = 0
  THEN 1
  ELSE trucksRequired

\* the function with a safety floor of two trucks, one of them a spare
calculateFleetSize_spareTruck(input) ==
  IF FleetSizingIssues(input) # {}
  THEN Failure(FleetSizingIssues(input))
  ELSE
    LET validated == FleetSizingInputSchema(input)
        rawTrucks == Div(validated.totalMineTonnesPerYear,
                         validated.tonnesPerTruckYear)
        rounded == RoundByThreshold(rawTrucks)
    IN  [ok |-> TRUE,
         rawTrucks |-> rawTrucks,
         trucksRequired |->
           IF Gt(validated.totalMineTonnesPerYear, Zero) /\ rounded = 0
           THEN 2
           ELSE rounded]

calculateFleetSize(input) ==
  IF FleetSizingIssues(input) # {}
  THEN Failure(FleetSizingIssues(input))
  ELSE
    LET validated == FleetSizingInputSchema(input)
        rawTrucks == Div(validated.totalMineTonnesPerYear,
                         validated.tonnesPerTruckYear)
    IN  [ok |-> TRUE,
         rawTrucks |-> rawTrucks,
         trucksRequired |->
           SafetyRule(validated.totalMineTonnesPerYear,
                      RoundByThreshold(rawTrucks))]

(***************************************************************************)
(* Inputs of the fleet-sizing calls                                        *)
(***************************************************************************)
\* production targets are the multiples of 10 000 tonnes up to
\* MaxTonnesSteps steps, and a few values off that grid
MaxTonnesSteps == 240

TotalMineTonnesValues ==
  {Num(k * 10000) : k \in 0..MaxTonnesSteps}
    \cup {Num(-10000), Num(1), Rat(1, 2), Undefined}

TonnesPerTruckYearValues ==
  {Num(1000000), Num(300000), Num(70000), Rat(1, 4), Zero, Num(-1000000),
   Undefined}

FleetSizingInputs ==
  [totalMineTonnesPerYear : TotalMineTonnesValues,
   tonnesPerTruckYear : TonnesPerTruckYearValues]

FleetSizeCalls ==
  {[fn |-> "calculateFleetSize", input |-> i] : i \in FleetSizingInputs}

(***************************************************************************)
(* calculateHaulCycleTime  (src/src/core/haulCycleTime.ts 6-54)            *)
(***************************************************************************)
\* the issues HaulCycleTimeInputSchema.parse raises
HaulCycleTimeIssues(input) ==
  (IF ~NumberIntMin0(input.distanceLoaded) THEN {"distanceLoaded"} ELSE {})
  \cup
  (IF ~NumberIntMin0(input.distanceUnloaded) THEN {"distanceUnloaded"} ELSE {})
  \cup
  (IF ~NumberGt0(input.speedLoaded) THEN {"speedLoaded"} ELSE {})
  \cup
  (IF ~NumberGt0(input.speedUnloaded) THEN {"speedUnloaded"} ELSE {})
  \cup
  (IF ~NumberGt0(input.loadingTime) THEN {"loadingTime"} ELSE {})
  \cup
  (IF ~NumberGt0(input.unloadingTime) THEN {"unloadingTime"} ELSE {})

\* the value HaulCycleTimeInputSchema.parse returns for an accepted input
HaulCycleTimeInputSchema(input) == input

\* the conversion with the factor upside down (3600 / 1000)
SpeedMs_inverted(speedKmh) == Div(Mul(speedKmh, Num(3600)), Num(1000))

\* km/h -> m/s
SpeedMs(speedKmh) == Div(Mul(speedKmh, Num(1000)), Num(3600))

\* travel time of one leg in seconds
TravelTime(distance, speedMs) ==
  IF Gt(speedMs, Zero) THEN Div(distance, speedMs) ELSE Zero

calculateHaulCycleTime(input) ==
  IF HaulCycleTimeIssues(input) # {}
  THEN Failure(HaulCycleTimeIssues(input))
  ELSE
    LET x == HaulCycleTimeInputSchema(input)
        speedLoadedMs == SpeedMs(x.speedLoaded)
        speedUnloadedMs == SpeedMs(x.speedUnloaded)
        loadedTravelTime == TravelTime(x.distanceLoaded, speedLoadedMs)
        unloadedTravelTime == TravelTime(x.distanceUnloaded, speedUnloadedMs)
        cycleTimeSeconds ==
          Add(Add(Add(loadedTravelTime, unloadedTravelTime), x.loadingTime),
              x.unloadingTime)
    IN  [ok |-> TRUE, cycleTimeSeconds |-> cycleTimeSeconds]

(***************************************************************************)
(* calculateHaulProductivity  (src/src/core/haulProductivity.ts 11-103)    *)
(***************************************************************************)
DEFAULT_AVAILABILITY == Rat(90, 100)

DEFAULT_EFFICIENCY == Rat(60, 100)

DEFAULT_UTILIZATION == Rat(90, 100)

SECONDS_PER_HOUR == 3600

HOURS_PER_YEAR == 365 * 24

SECONDS_PER_YEAR == HOURS_PER_YEAR * SECONDS_PER_HOUR

\* the schema with plain z.number().optional() ratios: no range check
HaulProductivityIssues_ratiosUnchecked(input) ==
  (IF ~NumberGt0(input.cycleTimeSeconds) THEN {"cycleTimeSeconds"} ELSE {})
  \cup
  (IF ~NumberGt0(input.payloadTonnes) THEN {"payloadTonnes"} ELSE {})

\* the issues HaulProductivityInputSchema.parse raises
HaulProductivityIssues(input) ==
  (IF ~NumberGt0(input.cycleTimeSeconds) THEN {"cycleTimeSeconds"} ELSE {})
  \cup
  (IF ~NumberGt0(input.payloadTonnes) THEN {"payloadTonnes"} ELSE {})
  \cup
  (IF input.availability # Undefined /\ ~NumberMin0Max1(input.availability)
   THEN {"availability"} ELSE {})
  \cup
  (IF input.efficiency # Undefined /\ ~NumberMin0Max1(input.efficiency)
   THEN {"efficiency"} ELSE {})
  \cup
  (IF input.utilization # Undefined /\ ~NumberMin0Max1(input.utilization)
   THEN {"utilization"} ELSE {})

\* the defaults applied as a block: one missing ratio resets all three
HaulProductivityInputSchema_allOrNothing(input) ==
  IF Undefined \in {input.availability, input.efficiency, input.utilization}
  THEN [cycleTimeSeconds |-> input.cycleTimeSeconds,
        payloadTonnes |-> input.payloadTonnes,
        availability |-> DEFAULT_AVAILABILITY,
        efficiency |-> DEFAULT_EFFICIENCY,
        utilization |-> DEFAULT_UTILIZATION]
  ELSE input

\* the value HaulProductivityInputSchema.parse returns for an accepted input
HaulProductivityInputSchema(input) ==
  [cycleTimeSeconds |-> input.cycleTimeSeconds,
   payloadTonnes |-> input.payloadTonnes,
   availability |-> WithDefault(input.availability, DEFAULT_AVAILABILITY),
   efficiency |-> WithDefault(input.efficiency, DEFAULT_EFFICIENCY),
   utilization |-> WithDefault(input.utilization, DEFAULT_UTILIZATION)]

\* step 2 with the utilization left out of the product
EffectiveFactor_noUtilization(validated) ==
  Mul(validated.availability, validated.efficiency)

\* step 2: combined operational factor
EffectiveFactor(validated) ==
  Mul(Mul(validated.availability, validated.efficiency),
      validated.utilization)

calculateHaulProductivity(input) ==
  IF HaulProductivityIssues(input) # {}
  THEN Failure(HaulProductivityIssues(input))
  ELSE
    LET validated == HaulProductivityInputSchema(input)
        theoreticalCyclesPerHour ==
          Div(Num(SECONDS_PER_HOUR), validated.cycleTimeSeconds)
        theoreticalCyclesPerYear ==
          Div(Num(SECONDS_PER_YEAR), validated.cycleTimeSeconds)
        effectiveFactor == EffectiveFactor(validated)
        effectiveCyclesPerYear ==
          Mul(theoreticalCyclesPerYear, effectiveFactor)
        tonnesPerTruckYear ==
          Mul(validated.payloadTonnes, effectiveCyclesPerYear)
        tonnesPerHour ==
          Mul(Mul(validated.payloadTonnes, theoreticalCyclesPerHour),
              effectiveFactor)
    IN  [ok |-> TRUE,
         theoreticalCyclesPerHour |-> theoreticalCyclesPerHour,
         theoreticalCyclesPerYear |-> theoreticalCyclesPerYear,
         effectiveFactor |-> effectiveFactor,
         effectiveCyclesPerYear |-> effectiveCyclesPerYear,
         tonnesPerTruckYear |-> tonnesPerTruckYear,
         tonnesPerHour |-> tonnesPerHour]

(***************************************************************************)
(* Inputs of the cycle-time and productivity calls                         *)
(***************************************************************************)
\* haul distances are the multiples of 725 m up to MaxDistanceSteps steps
MaxDistanceSteps == 2

DistanceValues ==
  {Num(k * 725) : k \in 0..MaxDistanceSteps} \cup {Num(-1), Rat(1, 2)}

SpeedValues == {Num(25), Num(30), Zero, Num(-25)}

DwellTimeValues == {Num(120), Num(90), Zero, Num(-90)}

HaulCycleTimeInputs ==
  [distanceLoaded : DistanceValues \cup {Undefined},
   distanceUnloaded : DistanceValues,
   speedLoaded : SpeedValues,
   speedUnloaded : SpeedValues,
   loadingTime : DwellTimeValues,
   unloadingTime : DwellTimeValues]

HaulCycleTimeCalls ==
  {[fn |-> "calculateHaulCycleTime", input |-> i] : i \in HaulCycleTimeInputs}

\* the ratios are the multiples of 1/RatioSteps from -1/RatioSteps to
\* 1 + 1/RatioSteps, or left out
RatioSteps == 4

RatioValues ==
  {Rat(k, RatioSteps) : k \in (-1)..(RatioSteps + 1)} \cup {Undefined}

CycleTimeSecondsValues == {Num(600), Num(450), Zero, Num(-600)}

PayloadTonnesValues == {Num(150), Num(100), Zero, Num(-150)}

HaulProductivityInputs ==
  [cycleTimeSeconds : CycleTimeSecondsValues,
   payloadTonnes : PayloadTonnesValues,
   availability : RatioValues,
   efficiency : RatioValues,
   utilization : RatioValues]

HaulProductivityCalls ==
  {[fn |-> "calculateHaulProductivity", input |-> i] :
     i \in HaulProductivityInputs}

(***************************************************************************)
(* calcCostBreakdown  (src/src/lib/cost/calcCost.ts)                       *)
(***************************************************************************)
NUMERIC_COST_FIELDS ==
  <<"truckPriceEUR", "truckLicenseEURPerYear", "fmsAnnualLicenseEUR",
    "fmsDeploymentOneTimeEUR", "fmsHwOneTimeEUR", "serviceSEKPerKm",
    "fuelSEKPerKm", "deploymentOneTimeEUR", "fxSEKPerEUR">>

FxError == "FX rate (SEK per EUR) must be greater than 0"

MustNotBeNegative(field) == field \o " must not be negative"

\* the loop of validateCostModel from field number k on: the message of the
\* first negative field, as a set, or {} when the loop ends
RECURSIVE NegativeCostField(_, _)
NegativeCostField(model, k) ==
  IF k > Len(NUMERIC_COST_FIELDS)
  THEN {}
  ELSE IF Lt(model[NUMERIC_COST_FIELDS[k]], Zero)
       THEN {MustNotBeNegative(NUMERIC_COST_FIELDS[k])}
       ELSE NegativeCostField(model, k + 1)

\* the validation with the FX-rate check after the loop over the fields
validateCostModel_fxLast(model) ==
  IF NegativeCostField(model, 1) # {}
  THEN NegativeCostField(model, 1)
  ELSE IF Le(model.fxSEKPerEUR, Zero) THEN {FxError} ELSE {}

\* the message validateCostModel throws, as a set; {} when it returns
validateCostModel(model) ==
  IF Le(model.fxSEKPerEUR, Zero)
  THEN {FxError}
  ELSE NegativeCostField(model, 1)

\* the loop of validateDrivers from row k on: the message thrown, as a set;
\* {} when the loop ends
RECURSIVE FirstDriverFault(_, _)
FirstDriverFault(drivers, k) ==
  IF k > Len(drivers)
  THEN {}
  ELSE IF Lt(drivers[k].fleetSize, Zero)
       THEN {MustNotBeNegative("fleetSize")}
       ELSE IF Lt(drivers[k].kmPerYear, Zero)
            THEN {MustNotBeNegative("kmPerYear")}
            ELSE FirstDriverFault(drivers, k + 1)

\* the validation that looks at the first row only
validateDrivers_firstRowOnly(drivers) ==
  IF drivers = <<>> THEN {} ELSE FirstDriverFault(<<drivers[1]>>, 1)

\* the message validateDrivers throws, as a set; {} when it returns
validateDrivers(drivers) == FirstDriverFault(drivers, 1)

\* the purchase count without the clamp at 0
NewTrucks_unclamped(fleetSize, prevFleet) == Sub(fleetSize, prevFleet)

\* Math.max(0, d.fleetSize - prevFleet)
NewTrucks(fleetSize, prevFleet) == Max(Zero, Sub(fleetSize, prevFleet))

\* the deployment fee charged in every year
CapexDeployment_everyYear(model, isFirstYear) == model.deploymentOneTimeEUR

CapexDeployment(model, isFirstYear) ==
  IF isFirstYear THEN model.deploymentOneTimeEUR ELSE Zero

\* the one-time FMS cost charged whether or not the FMS is included
CapexFms_always(model, isFirstYear) ==
  IF isFirstYear
  THEN Add(model.fmsDeploymentOneTimeEUR, model.fmsHwOneTimeEUR)
  ELSE Zero

CapexFms(model, isFirstYear) ==
  IF isFirstYear /\ model.includeFMS
  THEN Add(model.fmsDeploymentOneTimeEUR, model.fmsHwOneTimeEUR)
  ELSE Zero

\* the annual FMS license charged whether or not FMS is included
OpexFmsLicenseEUR_always(model) == model.fmsAnnualLicenseEUR

OpexFmsLicenseEUR(model) ==
  IF model.includeFMS THEN model.fmsAnnualLicenseEUR ELSE Zero

\* the EUR total with the SEK costs added unconverted
TotalCostEUR_unconverted(model, capexTotalEUR, opexTotalEUR, opexTotalSEK) ==
  Add(Add(capexTotalEUR, opexTotalEUR), opexTotalSEK)

TotalCostEUR(model, capexTotalEUR, opexTotalEUR, opexTotalSEK) ==
  Add(Add(capexTotalEUR, opexTotalEUR), Div(opexTotalSEK, model.fxSEKPerEUR))

TotalCostSEK(model, capexTotalEUR, opexTotalEUR, opexTotalSEK) ==
  Add(Mul(Add(capexTotalEUR, opexTotalEUR), model.fxSEKPerEUR), opexTotalSEK)

\* the callback of drivers.map for driver d at 0-based index i, with the
\* value prevFleet has when the callback is entered
CostRow(model, d, i, prevFleet) ==
  LET newTrucks == NewTrucks(d.fleetSize, prevFleet)
      isFirstYear == i = 0
      capexTrucks == Mul(newTrucks, model.truckPriceEUR)
      capexDeployment == CapexDeployment(model, isFirstYear)
      capexFms == CapexFms(model, isFirstYear)
      capexTotalEUR == Add(Add(capexTrucks, capexDeployment), capexFms)
      opexTruckLicenseEUR == Mul(d.fleetSize, model.truckLicenseEURPerYear)
      opexFmsLicenseEUR == OpexFmsLicenseEUR(model)
      opexTotalEUR == Add(opexTruckLicenseEUR, opexFmsLicenseEUR)
      opexServiceSEK == Mul(d.kmPerYear, model.serviceSEKPerKm)
      opexFuelSEK == Mul(d.kmPerYear, model.fuelSEKPerKm)
      opexTotalSEK == Add(opexServiceSEK, opexFuelSEK)
  IN  [year |-> d.year,
       fleetSize |-> d.fleetSize,
       newTrucks |-> newTrucks,
       kmPerYear |-> d.kmPerYear,
       capexTrucks |-> capexTrucks,
       capexDeployment |-> capexDeployment,
       capexFms |-> capexFms,
       capexTotalEUR |-> capexTotalEUR,
       opexTruckLicenseEUR |-> opexTruckLicenseEUR,
       opexFmsLicenseEUR |-> opexFmsLicenseEUR,
       opexTotalEUR |-> opexTotalEUR,
       opexServiceSEK |-> opexServiceSEK,
       opexFuelSEK |-> opexFuelSEK,
       opexTotalSEK |-> opexTotalSEK,
       totalCostEUR |->
         TotalCostEUR(model, capexTotalEUR, opexTotalEUR, opexTotalSEK),
       totalCostSEK |->
         TotalCostSEK(model, capexTotalEUR, opexTotalEUR, opexTotalSEK)]

\* drivers.map from the row at 1-based position k on; prevFleet is the
\* accumulator, set to the row's fleetSize by each callback
\* drivers.map with an accumulator that is never updated
CostRows_noCarry(model, drivers, k, prevFleet) ==
  [j \in 1..(Len(drivers) - k + 1) |->
     CostRow(model, drivers[j + k - 1], j + k - 2, prevFleet)]

RECURSIVE CostRows(_, _, _, _)
CostRows(model, drivers, k, prevFleet) ==
  IF k > Len(drivers)
  THEN <<>>
  ELSE <<CostRow(model, drivers[k], k - 1, prevFleet)>>
         \o CostRows(model, drivers, k + 1, drivers[k].fleetSize)

\* the initial value of rows.reduce
ZeroTotals ==
  [capexTrucksEUR |-> Zero, capexOneTimeEUR |-> Zero, capexTotalEUR |-> Zero,
   opexTotalEUR |-> Zero, opexTotalSEK |-> Zero, totalCostEUR |-> Zero,
   totalCostSEK |-> Zero]

\* the reducer with the FMS one-time costs left out of capexOneTimeEUR
PeriodTotalsStep_noFms(acc, row) ==
  [capexTrucksEUR |-> Add(acc.capexTrucksEUR, row.capexTrucks),
   capexOneTimeEUR |-> Add(acc.capexOneTimeEUR, row.capexDeployment),
   capexTotalEUR |-> Add(acc.capexTotalEUR, row.capexTotalEUR),
   opexTotalEUR |-> Add(acc.opexTotalEUR, row.opexTotalEUR),
   opexTotalSEK |-> Add(acc.opexTotalSEK, row.opexTotalSEK),
   totalCostEUR |-> Add(acc.totalCostEUR, row.totalCostEUR),
   totalCostSEK |-> Add(acc.totalCostSEK, row.totalCostSEK)]

\* the reducer of rows.reduce
PeriodTotalsStep(acc, row) ==
  [capexTrucksEUR |-> Add(acc.capexTrucksEUR, row.capexTrucks),
   capexOneTimeEUR |->
     Add(Add(acc.capexOneTimeEUR, row.capexDeployment), row.capexFms),
   capexTotalEUR |-> Add(acc.capexTotalEUR, row.capexTotalEUR),
   opexTotalEUR |-> Add(acc.opexTotalEUR, row.opexTotalEUR),
   opexTotalSEK |-> Add(acc.opexTotalSEK, row.opexTotalSEK),
   totalCostEUR |-> Add(acc.totalCostEUR, row.totalCostEUR),
   totalCostSEK |-> Add(acc.totalCostSEK, row.totalCostSEK)]

\* rows.reduce from the row at position k on, with accumulator acc
RECURSIVE PeriodTotals(_, _, _)
PeriodTotals(rows, k, acc) ==
  IF k > Len(rows)
  THEN acc
  ELSE PeriodTotals(rows, k + 1, PeriodTotalsStep(acc, rows[k]))

\* the accumulator kept from one call to the next, never set back to 0
PrevFleetAtEntry_leftOver == leftOver

\* let prevFleet = 0: the accumulator at the start of drivers.map
PrevFleetAtEntry == Zero

\* the accumulator when the call is over: the last row's fleetSize; a call
\* that throws at the validation never reaches it
PrevFleetAtExit(model, drivers) ==
  IF validateCostModel(model) # {} \/ validateDrivers(drivers) # {}
  THEN leftOver
  ELSE IF Len(drivers) = 0 THEN PrevFleetAtEntry
  ELSE drivers[Len(drivers)].fleetSize

calcCostBreakdown(model, drivers) ==
  IF validateCostModel(model) # {}
  THEN Failure(validateCostModel(model))
  ELSE IF validateDrivers(drivers) # {}
       THEN Failure(validateDrivers(drivers))
       ELSE
         LET rows == CostRows(model, drivers, 1, PrevFleetAtEntry)
         IN  [ok |-> TRUE,
              rows |-> rows,
              periodTotals |-> PeriodTotals(rows, 1, ZeroTotals)]

(***************************************************************************)
(* Inputs of the cost calls                                                *)
(***************************************************************************)
\* a cost model with all rates positive; amounts in thousands
BaseCostModel ==
  [truckPriceEUR |-> Num(300),
   truckLicenseEURPerYear |-> Num(50),
   includeFMS |-> FALSE,
   fmsAnnualLicenseEUR |-> Num(100),
   fmsDeploymentOneTimeEUR |-> Num(250),
   fmsHwOneTimeEUR |-> Num(150),
   serviceSEKPerKm |-> Num(2),
   fuelSEKPerKm |-> Num(6),
   deploymentOneTimeEUR |-> Num(200),
   fxSEKPerEUR |-> Num(11)]

FmsFeeValues ==
  {<<Num(100), Num(250), Num(150)>>, <<Num(70), Zero, Num(30)>>}

ValidCostModels ==
  {[BaseCostModel EXCEPT !.includeFMS = fms,
                         !.fxSEKPerEUR = fx,
                         !.fmsAnnualLicenseEUR = fees[1],
                         !.fmsDeploymentOneTimeEUR = fees[2],
                         !.fmsHwOneTimeEUR = fees[3]] :
     fms \in BOOLEAN, fx \in {Num(11), Rat(21, 2)}, fees \in FmsFeeValues}

\* one numeric field negative (FMS not included), and the FX rate 0
OneFaultCostModels ==
  {[BaseCostModel EXCEPT ![NUMERIC_COST_FIELDS[k]] = Num(-1)] : k \in 1..9}
  \cup {[BaseCostModel EXCEPT !.fxSEKPerEUR = Zero]}

\* two faults at once
TwoFaultCostModels ==
  {[BaseCostModel EXCEPT !.fxSEKPerEUR = Zero, !.truckPriceEUR = Num(-1)],
   [BaseCostModel EXCEPT !.fuelSEKPerKm = Num(-1),
                         !.truckLicenseEURPerYear = Num(-1)]}

CostModels == ValidCostModels \cup OneFaultCostModels \cup TwoFaultCostModels

\* at most MaxDrivers rows in a driver sequence
MaxDrivers == 3

\* fleets of 0, 1 or 2 trucks driving 0 or 5 (thousand) km, an empty fleet
\* driving nothing; and three rows with a negative field
DriverValues ==
  {d \in [fleetSize : {Zero, Num(1), Num(2)}, kmPerYear : {Zero, Num(5)}] :
     d.fleetSize = Zero => d.kmPerYear = Zero}
  \cup {[fleetSize |-> Num(-1), kmPerYear |-> Zero],
        [fleetSize |-> Num(1), kmPerYear |-> Num(-5)],
        [fleetSize |-> Num(-1), kmPerYear |-> Num(-5)]}

\* the years of a sequence of n rows: ascending, or descending
YearPatterns(n) ==
  {[k \in 1..n |-> Num(2025 + k)], [k \in 1..n |-> Num(2030 - k)]}

\* the driver sequences of n rows
DriverSequences(n) ==
  {[k \in 1..n |-> [year |-> years[k],
                    fleetSize |-> ds[k].fleetSize,
                    kmPerYear |-> ds[k].kmPerYear]] :
     ds \in [1..n -> DriverValues], years \in YearPatterns(n)}

(***************************************************************************)
(* Session and login  (src/src/lib/auth/session.ts, src/unnamed/part_006,  *)
(* src/src/app/api/auth/login/route.ts, logout/route.ts, src/src/app/      *)
(* page.tsx 1-32)                                                          *)
(*                                                                         *)
(* The session lives in the browser's cookie jar only: a request carries   *)
(* the cookie its browser holds, and a response may replace it.            *)
(***************************************************************************)
USERS ==
  <<[id |-> "u1", username |-> "demo", password |-> "demo123",
     displayName |-> "Demo User"]>>

\* the AuthUser made of a USERS entry
AuthUser(u) ==
  [id |-> u.id, username |-> u.username, displayName |-> u.displayName]

\* USERS.find((x) => x.username === username), from position k on;
\* 0 when there is none
RECURSIVE FindUser(_, _)
FindUser(username, k) ==
  IF k > Len(USERS) THEN 0
  ELSE IF USERS[k].username = username THEN k
  ELSE FindUser(username, k + 1)

\* SimpleUserPassProvider.authenticate
authenticate(username, password) ==
  LET k == FindUser(username, 1)
  IN  IF k = 0 \/ USERS[k].password # password
      THEN [ok |-> FALSE, message |-> "Invalid username or password."]
      ELSE [ok |-> TRUE, user |-> AuthUser(USERS[k])]

\* JSON.stringify of an AuthUser
JSONStringify(user) ==
  "{\"id\":\"" \o user.id \o "\",\"username\":\"" \o user.username
    \o "\",\"displayName\":\"" \o user.displayName \o "\"}"

\* JSON.parse on the cookie texts that occur: the text of an AuthUser gives
\* that user back, "null" gives null, and any other text throws
JSONParse(raw) ==
  IF \E k \in 1..Len(USERS) : raw = JSONStringify(AuthUser(USERS[k]))
  THEN [ok |-> TRUE,
        value |-> AuthUser(USERS[CHOOSE k \in 1..Len(USERS) :
                                   raw = JSONStringify(AuthUser(USERS[k]))])]
  ELSE IF raw = "null" THEN [ok |-> TRUE, value |-> Null]
  ELSE [ok |-> FALSE]

\* the cookie value the response of setSession leaves in the browser
setSession(user) == JSONStringify(user)

\* the cookie value after clearSession: the cookie is set empty with
\* maxAge 0, so the browser holds none
clearSession == ""

\* getSessionUser, for a request that carries the cookie value raw
getSessionUser(raw) ==
  IF raw = "" THEN Null
  ELSE LET parsed == JSONParse(raw)
       IN  IF parsed.ok THEN parsed.value ELSE Null

\* the request body the login route could not read as JSON
NullJson == [kind |-> "null"]

\* the issues BodySchema.safeParse raises
BodyIssues(json) ==
  IF json.kind = "null" THEN {"body"}
  ELSE (IF json.username = "" THEN {"username"} ELSE {})
         \cup (IF json.password = "" THEN {"password"} ELSE {})

\* POST /api/auth/login for a request with body json from a browser whose
\* session cookie is raw: the response, and the cookie the browser holds
\* afterwards
LoginPOST(json, raw) ==
  IF BodyIssues(json) # {}
  THEN [response |-> [ok |-> FALSE, status |-> 400,
                      message |-> "Ogiltig input."],
        cookie |-> raw]
  ELSE
    LET authResult == authenticate(json.username, json.password)
    IN  IF ~authResult.ok
        THEN [response |-> [ok |-> FALSE, status |-> 401,
                            message |-> authResult.message],
              cookie |-> raw]
        ELSE [response |-> [ok |-> TRUE, status |-> 200],
              cookie |-> setSession(authResult.user)]

\* POST /api/auth/logout
LogoutPOST(raw) ==
  [response |-> [ok |-> TRUE, status |-> 200], cookie |-> clearSession]

\* the page served to every request, whether or not it has a session
HomePage_unprotected(raw) ==
  [ok |-> TRUE, status |-> 200, page |-> "home", displayName |-> "Demo User"]

\* HomePage: the response to GET / from a browser whose cookie is raw
HomePage(raw) ==
  LET user == getSessionUser(raw)
  IN  IF user = Null
      THEN [ok |-> FALSE, status |-> 307, location |-> "/login"]
      ELSE [ok |-> TRUE, status |-> 200, page |-> "home",
            displayName |-> user.displayName]

(***************************************************************************)
(* Browsers and the requests they send                                     *)
(***************************************************************************)
MaxClients == 2

Clients == 1..MaxClients

\* what a browser may hold before its first login: no cookie, or a stale
\* one that is not the text of a user
StaleCookieValues == {"", "null", "session-of-an-older-release"}

UsernameValues == {"demo", "admin", ""}

PasswordValues == {"demo123", "wrong", ""}

LoginBodies ==
  {NullJson} \cup
  {[kind |-> "object", username |-> u, password |-> p] :
     u \in UsernameValues, p \in PasswordValues}

\* no browser takes part in the runs of the calculation functions
AuthIdle ==
  /\ cookie = [c \in Clients |-> ""]
  /\ loggedIn = [c \in Clients |-> FALSE]

(***************************************************************************)
(* scenarioRepository: the scenarios in localStorage                       *)
(***************************************************************************)
\* the fields of a CalculatorScenario that are numbers
NumericScenarioFields ==
  {"distanceLoaded", "distanceUnloaded", "speedLoaded", "speedUnloaded",
   "loadingTime", "unloadingTime", "payloadTonnes", "availability",
   "efficiency", "utilization", "cycleTimeSeconds", "tonnesPerHour",
   "tonnesPerTruckYear", "effectiveFactor"}

\* JSON.stringify of the scenario list; the text is held as the list that
\* JSON.parse makes of it: a number that is not finite is written as null,
\* every other value of a scenario comes back as it was
JSONStringifyScenarios(scenarios) ==
  [json |->
     [k \in 1..Len(scenarios) |->
        [f \in DOMAIN scenarios[k] |->
           IF f \in NumericScenarioFields /\ scenarios[k][f] = Undefined
           THEN Null
           ELSE scenarios[k][f]]]]

\* JSON.parse of the item
JSONParseScenarios(data) == data.json

\* getAll, in the browser
getAll(b) ==
  IF b.localStorage = Null THEN <<>> ELSE JSONParseScenarios(b.localStorage)

\* crypto.randomUUID(): the UUIDs are numbered in the order in which the
\* browser hands them out, and none is handed out twice
randomUUID(b) == b.uuids + 1

\* the scenario with the fields id and createdAt added
WithIdAndCreatedAt(scenario, id, createdAt) ==
  [f \in DOMAIN scenario \cup {"id", "createdAt"} |->
     IF f = "id" THEN id
     ELSE IF f = "createdAt" THEN createdAt
     ELSE scenario[f]]

\* save at the time now; stored tells whether localStorage.setItem takes
\* the text or throws (the quota is exceeded). Gives the browser afterwards
\* and what save returns or throws.
save(b, scenario, now, stored) ==
  LET newScenario == WithIdAndCreatedAt(scenario, randomUUID(b), now)
      scenarios == Append(getAll(b), newScenario)
      drawn == [b EXCEPT !.uuids = @ + 1]
  IN  IF stored
      THEN [browser |->
              [drawn EXCEPT !.localStorage = JSONStringifyScenarios(scenarios)],
            result |-> [ok |-> TRUE, value |-> newScenario]]
      ELSE [browser |-> drawn,
            result |-> Failure({"Failed to save scenario"})]

\* a filter that drops the scenario at the position id
WithoutId_position(scenarios, id) ==
  IF id \in 1..Len(scenarios)
  THEN [k \in 1..(Len(scenarios) - 1) |->
          IF k < id THEN scenarios[k] ELSE scenarios[k + 1]]
  ELSE scenarios

\* this.getAll().filter(s => s.id !== id)
WithoutId(scenarios, id) == SelectSeq(scenarios, LAMBDA s : s.id # id)

\* delete
delete(b, id, stored) ==
  IF stored
  THEN [browser |->
          [b EXCEPT !.localStorage =
                      JSONStringifyScenarios(WithoutId(getAll(b), id))],
        result |-> [ok |-> TRUE, value |-> Undefined]]
  ELSE [browser |-> b,
        result |-> Failure({"Failed to delete scenario"})]

\* getById: the first scenario with the id, or undefined
getById(b, id) ==
  LET found == {k \in 1..Len(getAll(b)) : getAll(b)[k].id = id}
  IN  IF found = {}
      THEN Undefined
      ELSE getAll(b)[CHOOSE k \in found : \A j \in found : k <= j]

(***************************************************************************)
(* The calculator component  (src/src/app/CalculatorClient.tsx 52-225)     *)
(*                                                                         *)
(* ui holds the component's React state; error = {} is the null error and  *)
(* a non-empty error is the set of fields the thrown ZodError names, or    *)
(* holds the message a scenario handler has set. A scenario name is the    *)
(* sequence of its characters.                                             *)
(***************************************************************************)
\* Math.round
MathRound(x) == Num(Floor(Add(x, Rat(1, 2))))

\* useState<HaulCycleInputs>
DefaultHaulCycle ==
  [distanceLoadedKm |-> Rat(145, 100),
   distanceUnloadedKm |-> Rat(145, 100),
   speedLoaded |-> Num(25),
   speedUnloaded |-> Num(30),
   loadingTime |-> Num(120),
   unloadingTime |-> Num(90)]

\* useState<ProductionPlanRow[]>
DefaultProductionPlan ==
  <<[year |-> 2026, tonnesPerYear |-> Num(5000000)],
    [year |-> 2027, tonnesPerYear |-> Num(6000000)],
    [year |-> 2028, tonnesPerYear |-> Num(4300000)],
    [year |-> 2029, tonnesPerYear |-> Num(3000000)],
    [year |-> 2030, tonnesPerYear |-> Num(2000000)]>>

\* COST_MODEL_DEFAULTS
COST_MODEL_DEFAULTS ==
  [truckPriceEUR |-> Num(300000),
   truckLicenseEURPerYear |-> Num(50000),
   includeFMS |-> FALSE,
   fmsAnnualLicenseEUR |-> Num(100000),
   fmsDeploymentOneTimeEUR |-> Num(250000),
   fmsHwOneTimeEUR |-> Num(150000),
   serviceSEKPerKm |-> Num(2),
   fuelSEKPerKm |-> Num(6),
   deploymentOneTimeEUR |-> Num(200000),
   fxSEKPerEUR |-> Num(11)]

\* the values performCalculation reads, which are the dependencies of the
\* auto-calculate effect apart from mode
Inputs(u) ==
  [haulCycle |-> u.haulCycle,
   payloadTonnes |-> u.payloadTonnes,
   availabilityPercent |-> u.availabilityPercent,
   efficiencyPercent |-> u.efficiencyPercent,
   utilizationPercent |-> u.utilizationPercent,
   productionPlan |-> u.productionPlan]

\* the state of the component when it is mounted with the plan
\* productionPlan; the effect of the first render has set the timer.
\* timers holds, for every timeout that is set, the inputs of the render
\* whose performCalculation it will call; computedFrom is history, the
\* haul cycle inputs the results were computed from. The effect that loads
\* the scenarios has found none in localStorage.
Mounted(productionPlan) ==
  [mounted |-> TRUE,
   mode |-> "dynamic",
   haulCycle |-> DefaultHaulCycle,
   payloadTonnes |-> Num(40),
   availabilityPercent |-> Num(90),
   efficiencyPercent |-> Num(60),
   utilizationPercent |-> Num(90),
   productionPlan |-> productionPlan,
   results |-> Null,
   error |-> {},
   pendingCalculation |-> FALSE,
   costModel |-> COST_MODEL_DEFAULTS,
   scenarios |-> <<>>,
   scenarioName |-> <<>>,
   computedFrom |-> Null,
   timers |-> {[haulCycle |-> DefaultHaulCycle,
                payloadTonnes |-> Num(40),
                availabilityPercent |-> Num(90),
                efficiencyPercent |-> Num(60),
                utilizationPercent |-> Num(90),
                productionPlan |-> productionPlan]}]

\* an effect whose cleanup leaves the timeout set
ClearTimeout_forgotten(u) == u

\* the cleanup of the auto-calculate effect: clearTimeout on the timeout
\* the effect had set
ClearTimeout(u) == [u EXCEPT !.timers = {}]

\* the auto-calculate effect, run after a render that changed a dependency:
\* the cleanup of its earlier run comes first; then a timeout of 100 ms is
\* set in dynamic mode, while static mode marks the calculation as pending
AutoCalculateEffect(u) ==
  IF u.mode = "dynamic"
  THEN [ClearTimeout(u) EXCEPT !.timers = @ \cup {Inputs(u)}]
  ELSE [ClearTimeout(u) EXCEPT !.pendingCalculation = TRUE]

\* updateProductionYearMt, index 1-based
updateProductionYearMt(productionPlan, index, mt) ==
  [productionPlan EXCEPT
     ![index] = [@ EXCEPT !.tonnesPerYear = Mul(mt, Num(1000000))]]

RECURSIVE MaxYear(_, _)
\* Math.max(...productionPlan.map((p) => p.year)), from position k on
MaxYear(productionPlan, k) ==
  IF k = Len(productionPlan) THEN productionPlan[k].year
  ELSE LET rest == MaxYear(productionPlan, k + 1)
       IN  IF productionPlan[k].year > rest THEN productionPlan[k].year
           ELSE rest

\* addProductionYear
addProductionYear(productionPlan) ==
  LET lastYear ==
        IF Len(productionPlan) > 0 THEN MaxYear(productionPlan, 1) ELSE 2025
  IN  Append(productionPlan,
             [year |-> lastYear + 1, tonnesPerYear |-> Num(5000000)])

\* productionPlan.filter((_, i) => i !== index), index 1-based
removeProductionYear(productionPlan, index) ==
  [k \in 1..(Len(productionPlan) - 1) |->
     IF k < index THEN productionPlan[k] ELSE productionPlan[k + 1]]

\* every year sized for the largest target of the plan so far
YearlyFleet_neverShrinking(productionPlan, tonnesPerTruckYear) ==
  [k \in 1..Len(productionPlan) |->
     LET peak == CHOOSE j \in 1..k : \A i \in 1..k :
                   Le(productionPlan[i].tonnesPerYear,
                      productionPlan[j].tonnesPerYear)
     IN  calculateFleetSize(
           [totalMineTonnesPerYear |-> productionPlan[peak].tonnesPerYear,
            tonnesPerTruckYear |-> tonnesPerTruckYear])]

\* the outcomes of calculateFleetSize in productionPlan.map
YearlyFleet(productionPlan, tonnesPerTruckYear) ==
  [k \in 1..Len(productionPlan) |->
     calculateFleetSize(
       [totalMineTonnesPerYear |-> productionPlan[k].tonnesPerYear,
        tonnesPerTruckYear |-> tonnesPerTruckYear])]

\* a catch branch that leaves the results as they were
CalculationFailed_staleResults(u, fields) == [u EXCEPT !.error = fields]

\* the catch branch of performCalculation
CalculationFailed(u, fields) == [u EXCEPT !.results = Null, !.error = fields]

\* performCalculation
performCalculation(u) ==
  LET cycleTimeResult ==
        calculateHaulCycleTime(
          [distanceLoaded |->
             MathRound(Mul(u.haulCycle.distanceLoadedKm, Num(1000))),
           distanceUnloaded |->
             MathRound(Mul(u.haulCycle.distanceUnloadedKm, Num(1000))),
           speedLoaded |-> u.haulCycle.speedLoaded,
           speedUnloaded |-> u.haulCycle.speedUnloaded,
           loadingTime |-> u.haulCycle.loadingTime,
           unloadingTime |-> u.haulCycle.unloadingTime])
  IN  IF ~cycleTimeResult.ok
      THEN CalculationFailed(u, cycleTimeResult.error)
      ELSE
  LET productivityResult ==
        calculateHaulProductivity(
          [cycleTimeSeconds |-> cycleTimeResult.cycleTimeSeconds,
           payloadTonnes |-> u.payloadTonnes,
           availability |-> Div(u.availabilityPercent, Num(100)),
           efficiency |-> Div(u.efficiencyPercent, Num(100)),
           utilization |-> Div(u.utilizationPercent, Num(100))])
  IN  IF ~productivityResult.ok
      THEN CalculationFailed(u, productivityResult.error)
      ELSE
  LET fleetResults ==
        YearlyFleet(u.productionPlan, productivityResult.tonnesPerTruckYear)
      thrown == {k \in 1..Len(u.productionPlan) : ~fleetResults[k].ok}
  IN  IF thrown # {}
      THEN CalculationFailed(
             u, fleetResults[CHOOSE k \in thrown :
                               \A j \in thrown : k <= j].error)
      ELSE
        [u EXCEPT
           !.error = {},
           !.pendingCalculation = FALSE,
           !.results =
             [cycleTimeSeconds |-> cycleTimeResult.cycleTimeSeconds,
              cycleTimeMinutes |->
                Div(cycleTimeResult.cycleTimeSeconds, Num(60)),
              cyclesPerHour |-> productivityResult.theoreticalCyclesPerHour,
              tonnesPerHour |-> productivityResult.tonnesPerHour,
              tonnesPerTruckYear |-> productivityResult.tonnesPerTruckYear,
              effectiveFactor |-> productivityResult.effectiveFactor,
              yearlyFleet |->
                [k \in 1..Len(u.productionPlan) |->
                   [year |-> u.productionPlan[k].year,
                    tonnesPerYear |-> u.productionPlan[k].tonnesPerYear,
                    rawTrucks |-> fleetResults[k].rawTrucks,
                    trucksRequired |-> fleetResults[k].trucksRequired]]]]

\* a name that is used as it was typed
Trim_none(name) == name

\* String.prototype.trim for names of letters and spaces
Trim(name) ==
  LET inked == {k \in 1..Len(name) : name[k] # " "}
  IN  IF inked = {}
      THEN <<>>
      ELSE SubSeq(name,
                  CHOOSE k \in inked : \A j \in inked : k <= j,
                  CHOOSE k \in inked : \A j \in inked : j <= k)

\* the object onSaveScenario hands to scenarioRepository.save
ScenarioOf(u) ==
  [name |-> Trim(u.scenarioName),
   distanceLoaded |-> MathRound(Mul(u.haulCycle.distanceLoadedKm, Num(1000))),
   distanceUnloaded |->
     MathRound(Mul(u.haulCycle.distanceUnloadedKm, Num(1000))),
   speedLoaded |-> u.haulCycle.speedLoaded,
   speedUnloaded |-> u.haulCycle.speedUnloaded,
   loadingTime |-> u.haulCycle.loadingTime,
   unloadingTime |-> u.haulCycle.unloadingTime,
   payloadTonnes |-> u.payloadTonnes,
   availability |-> Div(u.availabilityPercent, Num(100)),
   efficiency |-> Div(u.efficiencyPercent, Num(100)),
   utilization |-> Div(u.utilizationPercent, Num(100)),
   productionPlan |-> u.productionPlan,
   costModel |-> u.costModel,
   cycleTimeSeconds |-> u.results.cycleTimeSeconds,
   tonnesPerHour |-> u.results.tonnesPerHour,
   tonnesPerTruckYear |-> u.results.tonnesPerTruckYear,
   effectiveFactor |-> u.results.effectiveFactor]

\* onSaveScenario; gives the component and the browser afterwards
onSaveScenario(u, b, now, stored) ==
  IF Trim(u.scenarioName) = <<>>
  THEN [ui |-> [u EXCEPT !.error = {"Please enter a scenario name."}],
        browser |-> b]
  ELSE IF u.results = Null
  THEN [ui |->
          [u EXCEPT !.error = {"Please calculate results before saving."}],
        browser |-> b]
  ELSE
    LET saved == save(b, ScenarioOf(u), now, stored)
    IN  IF saved.result.ok
        THEN [ui |-> [u EXCEPT !.scenarios = getAll(saved.browser),
                               !.scenarioName = <<>>,
                               !.error = {}],
              browser |-> saved.browser]
        ELSE [ui |-> [u EXCEPT !.error = {"Failed to save scenario."}],
              browser |-> saved.browser]

\* onDeleteScenario
onDeleteScenario(u, b, id, stored) ==
  LET deleted == delete(b, id, stored)
  IN  IF deleted.result.ok
      THEN [ui |-> [u EXCEPT !.scenarios = getAll(deleted.browser)],
            browser |-> deleted.browser]
      ELSE [ui |-> [u EXCEPT !.error = {"Failed to delete scenario."}],
            browser |-> deleted.browser]

\* the callback of a timeout: performCalculation of the render that set
\* it, which reads that render's inputs and sets the state of the moment
TimerCallback(u, inputs) ==
  LET r == performCalculation(
             [u EXCEPT !.haulCycle = inputs.haulCycle,
                       !.payloadTonnes = inputs.payloadTonnes,
                       !.availabilityPercent = inputs.availabilityPercent,
                       !.efficiencyPercent = inputs.efficiencyPercent,
                       !.utilizationPercent = inputs.utilizationPercent,
                       !.productionPlan = inputs.productionPlan])
  IN  [u EXCEPT !.results = r.results,
                !.error = r.error,
                !.pendingCalculation = r.pendingCalculation]

\* the drivers of the costBreakdown memo, for results that are not null
BreakdownDrivers(u) ==
  LET effectiveCyclesPerYear ==
        Mul(Div(Num(365 * 24 * 3600), u.results.cycleTimeSeconds),
            u.results.effectiveFactor)
      kmPerTruckYear ==
        Mul(Add(u.haulCycle.distanceLoadedKm, u.haulCycle.distanceUnloadedKm),
            effectiveCyclesPerYear)
  IN  [k \in 1..Len(u.results.yearlyFleet) |->
         [year |-> u.results.yearlyFleet[k].year,
          fleetSize |-> Num(u.results.yearlyFleet[k].trucksRequired),
          kmPerYear |->
            Mul(Num(u.results.yearlyFleet[k].trucksRequired),
                kmPerTruckYear)]]

\* whether the costBreakdown memo holds a breakdown: it is null without
\* results, and null when calcCostBreakdown throws
HasCostBreakdown(u) ==
  /\ u.results # Null
  /\ validateCostModel(u.costModel) = {}
  /\ validateDrivers(BreakdownDrivers(u)) = {}

(***************************************************************************)
(* What the user does with the calculator                                  *)
(***************************************************************************)
MaxPlanRows == 2

\* the plan the component starts with: the first MaxPlanRows of its years
InitialPlan ==
  SubSeq(DefaultProductionPlan, 1,
         IF MaxPlanRows < 5 THEN MaxPlanRows ELSE 5)

\* the saves a run makes at most
MaxScenarios == 2

\* what the user types as a scenario name
ScenarioNameValues == {<<>>, <<" ">>, <<"A">>, <<" ", "B", " ">>}

\* what new Date().toISOString() gives when a scenario is saved
NowValues == {"2026-11-03T09:00:00.000Z", "2026-11-03T09:00:01.000Z"}

\* slider positions of the loaded haul distance: the default and 2 km
DistanceLoadedKmValues == {Rat(145, 100), Num(2)}

\* slider positions of the three operational factors: the default and 0
AvailabilityPercentValues == {Num(90), Zero}

EfficiencyPercentValues == {Num(60), Zero}

UtilizationPercentValues == {Num(90), Zero}

\* slider positions of a year's production target, in Mt
PlanMtValues == {Num(5), Num(6)}

(***************************************************************************)
(* State machine: a call is drawn, then the called function is applied     *)
(***************************************************************************)
InitFleet == call \in FleetSizeCalls /\ result = Pending /\ AuthIdle
  /\ CostIdle /\ UiIdle /\ BrowserIdle

CalculateFleetSize ==
  /\ call.fn = "calculateFleetSize"
  /\ result = Pending
  /\ result' = calculateFleetSize(call.input)
  /\ UNCHANGED <<call, authVars, costVars, ui, browser>>

SpecFleet == InitFleet /\ [][CalculateFleetSize]_vars

InitCycle == call \in HaulCycleTimeCalls /\ result = Pending /\ AuthIdle
  /\ CostIdle /\ UiIdle /\ BrowserIdle

CalculateHaulCycleTime ==
  /\ call.fn = "calculateHaulCycleTime"
  /\ result = Pending
  /\ result' = calculateHaulCycleTime(call.input)
  /\ UNCHANGED <<call, authVars, costVars, ui, browser>>

SpecCycle == InitCycle /\ [][CalculateHaulCycleTime]_vars

InitProductivity ==
  call \in HaulProductivityCalls /\ result = Pending /\ AuthIdle
  /\ CostIdle /\ UiIdle /\ BrowserIdle

CalculateHaulProductivity ==
  /\ call.fn = "calculateHaulProductivity"
  /\ result = Pending
  /\ result' = calculateHaulProductivity(call.input)
  /\ UNCHANGED <<call, authVars, costVars, ui, browser>>

SpecProductivity == InitProductivity /\ [][CalculateHaulProductivity]_vars

InitCost ==
  /\ \E model \in CostModels, n \in 0..MaxDrivers :
       \E drivers \in DriverSequences(n) :
         call = [fn |-> "calcCostBreakdown",
                 input |-> [model |-> model, drivers |-> drivers]]
  /\ result = Pending
  /\ AuthIdle /\ CostIdle /\ UiIdle /\ BrowserIdle

CalcCostBreakdown ==
  /\ call.fn = "calcCostBreakdown"
  /\ result = Pending
  /\ result' = calcCostBreakdown(call.input.model, call.input.drivers)
  /\ leftOver' = PrevFleetAtExit(call.input.model, call.input.drivers)
  /\ UNCHANGED <<call, authVars, earlier, ui, browser>>

SpecCost == InitCost /\ [][CalcCostBreakdown]_vars

\* either function is called, with any of its optional fields left out
InitDefaults == InitProductivity \/ InitFleet

SpecDefaults ==
  InitDefaults /\ [][CalculateHaulProductivity \/ CalculateFleetSize]_vars

InitAuth ==
  /\ call = NoCall
  /\ result = Pending
  /\ cookie \in [Clients -> StaleCookieValues]
  /\ loggedIn = [c \in Clients |-> FALSE]
  /\ CostIdle /\ UiIdle /\ BrowserIdle

Login(c, json) ==
  LET r == LoginPOST(json, cookie[c])
  IN  /\ call' = [fn |-> "POST /api/auth/login", client |-> c, input |-> json]
      /\ result' = r.response
      /\ cookie' = [cookie EXCEPT ![c] = r.cookie]
      /\ loggedIn' = [loggedIn EXCEPT ![c] = r.response.ok \/ @]
      /\ UNCHANGED <<costVars, ui, browser>>

Logout(c) ==
  LET r == LogoutPOST(cookie[c])
  IN  /\ call' = [fn |-> "POST /api/auth/logout", client |-> c]
      /\ result' = r.response
      /\ cookie' = [cookie EXCEPT ![c] = r.cookie]
      /\ loggedIn' = [loggedIn EXCEPT ![c] = FALSE]
      /\ UNCHANGED <<costVars, ui, browser>>

RequestHome(c) ==
  /\ call' = [fn |-> "GET /", client |-> c]
  /\ result' = HomePage(cookie[c])
  /\ UNCHANGED <<authVars, costVars, ui, browser>>

NextAuth ==
  \E c \in Clients :
    \/ \E json \in LoginBodies : Login(c, json)
    \/ Logout(c)
    \/ RequestHome(c)

SpecAuth == InitAuth /\ [][NextAuth]_vars

(***************************************************************************)
(* calcCostBreakdown called again and again                                *)
(***************************************************************************)
\* two valid cost models and one that validateCostModel rejects
RepeatCostModels ==
  {BaseCostModel,
   [BaseCostModel EXCEPT !.includeFMS = TRUE],
   [BaseCostModel EXCEPT !.fxSEKPerEUR = Zero]}

\* plans of up to two years with 0, 1 or 2 trucks a year
RepeatDrivers ==
  UNION {{[k \in 1..n |-> [year |-> Num(2025 + k),
                           fleetSize |-> Num(fleet[k]),
                           kmPerYear |-> Num(5 * fleet[k])]] :
            fleet \in [1..n -> 0..2]} : n \in 0..2}

InitCostCalls ==
  /\ call = NoCall
  /\ result = Pending
  /\ leftOver = Zero
  /\ earlier = NoCall
  /\ AuthIdle /\ UiIdle /\ BrowserIdle

\* one more call of calcCostBreakdown; the first call may be kept in
\* earlier, where between counts the calls with another input made since
CallCostBreakdown(model, drivers) ==
  LET input == [model |-> model, drivers |-> drivers]
      outcome == calcCostBreakdown(model, drivers)
  IN  /\ call' = [fn |-> "calcCostBreakdown", input |-> input]
      /\ result' = outcome
      /\ leftOver' = PrevFleetAtExit(model, drivers)
      /\ earlier' =
           IF earlier = NoCall
           THEN [fn |-> "calcCostBreakdown", input |-> input,
                 result |-> outcome, between |-> 0]
           ELSE IF earlier.input # input /\ earlier.between = 0
                THEN [earlier EXCEPT !.between = 1]
                ELSE earlier
      /\ UNCHANGED <<authVars, ui, browser>>

NextCostCalls ==
  \E model \in RepeatCostModels, drivers \in RepeatDrivers :
    CallCostBreakdown(model, drivers)

SpecCostCalls == InitCostCalls /\ [][NextCostCalls]_vars

(***************************************************************************)
(* The calculator: the user's actions and the debounce timer               *)
(***************************************************************************)
InitCalculator ==
  /\ call = NoCall
  /\ result = Pending
  /\ ui = Mounted(InitialPlan)
  /\ AuthIdle /\ CostIdle /\ BrowserIdle

\* the Live / Manual buttons; a click on the mode in force renders nothing
SetMode(mode) ==
  /\ ui.mode # mode
  /\ ui' = AutoCalculateEffect([ui EXCEPT !.mode = mode])
  /\ UNCHANGED <<call, result, authVars, costVars, browser>>

SetAvailabilityPercent(value) ==
  /\ ui.availabilityPercent # value
  /\ ui' = AutoCalculateEffect([ui EXCEPT !.availabilityPercent = value])
  /\ UNCHANGED <<call, result, authVars, costVars, browser>>

SetEfficiencyPercent(value) ==
  /\ ui.efficiencyPercent # value
  /\ ui' = AutoCalculateEffect([ui EXCEPT !.efficiencyPercent = value])
  /\ UNCHANGED <<call, result, authVars, costVars, browser>>

SetUtilizationPercent(value) ==
  /\ ui.utilizationPercent # value
  /\ ui' = AutoCalculateEffect([ui EXCEPT !.utilizationPercent = value])
  /\ UNCHANGED <<call, result, authVars, costVars, browser>>

\* the slider of a plan row moved to another position
UpdateProductionYearMt(index, mt) ==
  /\ index \in 1..Len(ui.productionPlan)
  /\ ui.productionPlan[index].tonnesPerYear # Mul(mt, Num(1000000))
  /\ ui' = AutoCalculateEffect(
             [ui EXCEPT !.productionPlan =
                          updateProductionYearMt(@, index, mt)])
  /\ UNCHANGED <<call, result, authVars, costVars, browser>>

\* Add Year, while the plan has fewer than MaxPlanRows rows and its years
\* stay within the first MaxPlanRows years
AddProductionYear ==
  /\ Len(ui.productionPlan) < MaxPlanRows
  /\ MaxYear(ui.productionPlan, 1) < 2025 + MaxPlanRows
  /\ ui' = AutoCalculateEffect(
             [ui EXCEPT !.productionPlan = addProductionYear(@)])
  /\ UNCHANGED <<call, result, authVars, costVars, browser>>

\* Remove, which is offered while the plan has more than one row
RemoveProductionYear(index) ==
  /\ index \in 1..Len(ui.productionPlan)
  /\ Len(ui.productionPlan) > 1
  /\ ui' = AutoCalculateEffect(
             [ui EXCEPT !.productionPlan = removeProductionYear(@, index)])
  /\ UNCHANGED <<call, result, authVars, costVars, browser>>

\* the slider of the loaded haul distance moved to another position
SetDistanceLoadedKm(value) ==
  /\ ui.haulCycle.distanceLoadedKm # value
  /\ ui' = AutoCalculateEffect(
             [ui EXCEPT !.haulCycle.distanceLoadedKm = value])
  /\ UNCHANGED <<call, result, authVars, costVars, browser>>

\* history: the haul cycle inputs the results, if any, were computed from
Remember(u, inputs) ==
  [u EXCEPT !.computedFrom =
              IF u.results = Null THEN Null ELSE inputs.haulCycle]

\* a 100 ms timeout expires and its callback runs
TimerFires(inputs) ==
  /\ inputs \in ui.timers
  /\ ui' = Remember(
             TimerCallback([ui EXCEPT !.timers = @ \ {inputs}], inputs),
             inputs)
  /\ UNCHANGED <<call, result, authVars, costVars, browser>>

\* onCalculate: the Calculate button, shown in static mode only
OnCalculate ==
  /\ ui.mode = "static"
  /\ ui' = Remember(performCalculation(ui), Inputs(ui))
  /\ UNCHANGED <<call, result, authVars, costVars, browser>>

NextCalculator ==
  \/ \E mode \in {"dynamic", "static"} : SetMode(mode)
  \/ \E value \in AvailabilityPercentValues : SetAvailabilityPercent(value)
  \/ \E value \in EfficiencyPercentValues : SetEfficiencyPercent(value)
  \/ \E value \in UtilizationPercentValues : SetUtilizationPercent(value)
  \/ \E index \in 1..MaxPlanRows, mt \in PlanMtValues :
       UpdateProductionYearMt(index, mt)
  \/ AddProductionYear
  \/ \E index \in 1..MaxPlanRows : RemoveProductionYear(index)
  \/ \E value \in DistanceLoadedKmValues : SetDistanceLoadedKm(value)
  \/ \E inputs \in ui.timers : TimerFires(inputs)
  \/ OnCalculate

SpecCalculator == InitCalculator /\ [][NextCalculator]_vars

(***************************************************************************)
(* The scenario repository on its own                                      *)
(***************************************************************************)
\* the scenarios handed to save: what the calculator saves after its first
\* calculation, under two names
ScenarioPayloads ==
  {ScenarioOf([performCalculation(Mounted(InitialPlan))
                 EXCEPT !.scenarioName = name]) :
     name \in {<<"A">>, <<"B">>}}

InitRepository ==
  /\ call = NoCall
  /\ result = Pending
  /\ browser = EmptyBrowser
  /\ AuthIdle /\ CostIdle /\ UiIdle

\* save, at most MaxScenarios times
RepositorySave(scenario, now, stored) ==
  /\ browser.uuids < MaxScenarios
  /\ call' = [fn |-> "save", input |-> scenario]
  /\ result' = save(browser, scenario, now, stored).result
  /\ browser' = save(browser, scenario, now, stored).browser
  /\ UNCHANGED <<authVars, costVars, ui>>

RepositoryDelete(id, stored) ==
  /\ call' = [fn |-> "delete", input |-> id]
  /\ result' = delete(browser, id, stored).result
  /\ browser' = delete(browser, id, stored).browser
  /\ UNCHANGED <<authVars, costVars, ui>>

RepositoryGetAll ==
  /\ call' = [fn |-> "getAll"]
  /\ result' = [ok |-> TRUE, value |-> getAll(browser)]
  /\ UNCHANGED <<authVars, costVars, ui, browser>>

RepositoryGetById(id) ==
  /\ call' = [fn |-> "getById", input |-> id]
  /\ result' = [ok |-> TRUE, value |-> getById(browser, id)]
  /\ UNCHANGED <<authVars, costVars, ui, browser>>

\* the ids asked for: those handed out, and one that never is
IdValues == 1..(MaxScenarios + 1)

NextRepository ==
  \/ \E scenario \in ScenarioPayloads, now \in NowValues, stored \in BOOLEAN :
       RepositorySave(scenario, now, stored)
  \/ \E id \in IdValues, stored \in BOOLEAN : RepositoryDelete(id, stored)
  \/ RepositoryGetAll
  \/ \E id \in IdValues : RepositoryGetById(id)

SpecRepository == InitRepository /\ [][NextRepository]_vars

\* the scenario name field
SetScenarioName(name) ==
  /\ ui.scenarioName # name
  /\ ui' = [ui EXCEPT !.scenarioName = name]
  /\ UNCHANGED <<call, result, authVars, costVars, browser>>

\* onSaveScenario runs, at most MaxScenarios times with a save
OnSaveScenario(now, stored) ==
  /\ browser.uuids < MaxScenarios
  /\ ui' = onSaveScenario(ui, browser, now, stored).ui
  /\ browser' = onSaveScenario(ui, browser, now, stored).browser
  /\ UNCHANGED <<call, result, authVars, costVars>>

\* the delete button of a scenario in the list
OnDeleteScenario(id, stored) ==
  /\ \E k \in 1..Len(ui.scenarios) : ui.scenarios[k].id = id
  /\ ui' = onDeleteScenario(ui, browser, id, stored).ui
  /\ browser' = onDeleteScenario(ui, browser, id, stored).browser
  /\ UNCHANGED <<call, result, authVars, costVars>>

\* the calculator with its scenario panel; of the inputs the availability
\* is moved
NextScenarios ==
  \/ \E value \in AvailabilityPercentValues : SetAvailabilityPercent(value)
  \/ \E inputs \in ui.timers : TimerFires(inputs)
  \/ \E name \in ScenarioNameValues : SetScenarioName(name)
  \/ \E now \in NowValues, stored \in BOOLEAN : OnSaveScenario(now, stored)
  \/ \E id \in 1..MaxScenarios, stored \in BOOLEAN :
       OnDeleteScenario(id, stored)

SpecScenarios == InitCalculator /\ [][NextScenarios]_vars

\* the calculator in a browser whose timeouts expire: weak fairness of
\* TimerFires, which is enabled exactly while a timeout is set and always
\* changes the state, written without ENABLED; that the step leaves no
\* timeout set is stated first to settle all other steps early
SpecCalculatorLive ==
  /\ SpecCalculator
  /\ \/ []<>(ui.timers = {})
     \/ []<><<ui'.timers = {} /\ \E inputs \in ui.timers :
                                   TimerFires(inputs)>>_vars

(***************************************************************************)
(* Fleet sizing: properties                                                *)
(***************************************************************************)
FleetDone == call.fn = "calculateFleetSize" /\ result.ok

\* the production target the call works with (the default when left out)
FleetTotal ==
  IF call.input.totalMineTonnesPerYear = Undefined
  THEN Num(5000000)
  ELSE call.input.totalMineTonnesPerYear

\* rawTrucks = FleetRawN / FleetRawD, not reduced
FleetRawN == FleetTotal.num * call.input.tonnesPerTruckYear.den

FleetRawD == FleetTotal.den * call.input.tonnesPerTruckYear.num

C2_ZeroIffZeroTarget ==
  FleetDone =>
    /\ (result.trucksRequired = 0) <=> (FleetTotal.num = 0)
    /\ FleetTotal.num > 0 => result.trucksRequired >= 1

\* a positive target below 0.20 truck-capacities has returned one truck
C2_Witness ==
  /\ FleetDone
  /\ FleetTotal.num > 0
  /\ 5 * FleetRawN < FleetRawD
  /\ result.trucksRequired = 1

(***************************************************************************)
(* Cycle time: properties                                                  *)
(***************************************************************************)
CycleReturned == call.fn = "calculateHaulCycleTime" /\ result # Pending

CycleDone == call.fn = "calculateHaulCycleTime" /\ result.ok

\* loadingTime + unloadingTime of the call
CycleDwell == Add(call.input.loadingTime, call.input.unloadingTime)

\* distance / (speed * 1000 / 3600), written as distance * 3600 / (speed * 1000)
LegSeconds(distance, speedKmh) ==
  Rat(distance.num * 3600 * speedKmh.den, distance.den * speedKmh.num * 1000)

\* C8: for every valid route cycleTimeSeconds is
\* distanceLoaded / (speedLoaded * 1000 / 3600)
\*   + distanceUnloaded / (speedUnloaded * 1000 / 3600)
\*   + loadingTime + unloadingTime;
\* it equals loadingTime + unloadingTime exactly when both distances are 0,
\* is strictly greater when a distance is > 0, and is always > 0.
C8_CycleTimeFormula ==
  CycleDone =>
    LET i == call.input
        expected ==
          Add(Add(LegSeconds(i.distanceLoaded, i.speedLoaded),
                  LegSeconds(i.distanceUnloaded, i.speedUnloaded)),
              CycleDwell)
        bothZero == i.distanceLoaded = Zero /\ i.distanceUnloaded = Zero
    IN  /\ result.cycleTimeSeconds = expected
        /\ bothZero => result.cycleTimeSeconds = CycleDwell
        /\ ~bothZero => Gt(result.cycleTimeSeconds, CycleDwell)
        /\ Gt(result.cycleTimeSeconds, Zero)

\* a route with a positive loaded distance and no unloaded distance has
\* returned a cycle time above loadingTime + unloadingTime
C8_Witness ==
  /\ CycleDone
  /\ Gt(call.input.distanceLoaded, Zero)
  /\ call.input.distanceUnloaded = Zero
  /\ Gt(result.cycleTimeSeconds, CycleDwell)

\* a number that is <= 0
NonPositive(x) == x # Undefined /\ Le(x, Zero)

\* a number that is < 0
Negative(x) == x # Undefined /\ Lt(x, Zero)

\* C9: calculateHaulCycleTime rejects the input with an error and returns no
\* result when a speed is <= 0, a distance is negative, or the loading or
\* unloading time is <= 0; a zero speed is rejected and gives no travel time.
C9_CycleTimeRejects ==
  CycleReturned =>
    LET i == call.input
        invalid ==
          \/ NonPositive(i.speedLoaded) \/ NonPositive(i.speedUnloaded)
          \/ Negative(i.distanceLoaded) \/ Negative(i.distanceUnloaded)
          \/ NonPositive(i.loadingTime) \/ NonPositive(i.unloadingTime)
    IN  invalid => /\ ~result.ok
                   /\ DOMAIN result = {"ok", "error"}
                   /\ result.error # {}

\* a call whose only fault is a zero loaded speed has been rejected
C9_Witness ==
  /\ CycleReturned
  /\ call.input.speedLoaded = Zero
  /\ Gt(call.input.speedUnloaded, Zero)
  /\ Gt(call.input.distanceLoaded, Zero) /\ IsInt(call.input.distanceLoaded)
  /\ Ge(call.input.distanceUnloaded, Zero) /\ IsInt(call.input.distanceUnloaded)
  /\ Gt(call.input.loadingTime, Zero)
  /\ Gt(call.input.unloadingTime, Zero)
  /\ result = Failure({"speedLoaded"})

(***************************************************************************)
(* Productivity: properties                                                *)
(***************************************************************************)
ProductivityDone == call.fn = "calculateHaulProductivity" /\ result.ok

\* the ratio the call works with: the supplied one, or the default
RatioUsed(x, dflt) == IF x = Undefined THEN dflt ELSE x

\* C10: for all availability, efficiency and utilization in [0,1],
\* effectiveFactor is the product of the three ratios and
\* 0 <= effectiveFactor <= 1.
C10_EffectiveFactor ==
  ProductivityDone =>
    LET a == RatioUsed(call.input.availability, Rat(9, 10))
        e == RatioUsed(call.input.efficiency, Rat(6, 10))
        u == RatioUsed(call.input.utilization, Rat(9, 10))
        f == result.effectiveFactor
    IN  /\ f.num * (a.den * e.den * u.den) = (a.num * e.num * u.num) * f.den
        /\ 0 <= f.num
        /\ f.num <= f.den

\* three supplied ratios strictly inside (0,1) have given their product
C10_Witness ==
  /\ ProductivityDone
  /\ \A x \in {call.input.availability, call.input.efficiency,
               call.input.utilization} :
       x # Undefined /\ Gt(x, Zero) /\ Lt(x, One)
  /\ call.input.utilization # call.input.availability
  /\ Gt(result.effectiveFactor, Zero)
  /\ Lt(result.effectiveFactor, call.input.utilization)

\* C11: for every valid input of calculateHaulProductivity,
\* effectiveCyclesPerYear <= theoreticalCyclesPerYear, and the two are equal
\* exactly when effectiveFactor = 1.
C11_EffectiveCyclesBound ==
  ProductivityDone =>
    /\ Le(result.effectiveCyclesPerYear, result.theoreticalCyclesPerYear)
    /\ (result.effectiveCyclesPerYear = result.theoreticalCyclesPerYear
          <=> result.effectiveFactor = One)

\* the equality case: the three ratios are 1 and no cycle is lost
C11_Witness ==
  /\ ProductivityDone
  /\ call.input.availability = One
  /\ call.input.efficiency = One
  /\ call.input.utilization = One
  /\ result.effectiveFactor = One
  /\ Gt(result.theoreticalCyclesPerYear, Zero)
  /\ result.effectiveCyclesPerYear = result.theoreticalCyclesPerYear

ProductivityReturned ==
  call.fn = "calculateHaulProductivity" /\ result # Pending

\* C12: when availability, efficiency and utilization are all 0,
\* calculateHaulProductivity succeeds and returns effectiveFactor = 0,
\* effectiveCyclesPerYear = 0, tonnesPerTruckYear = 0 and tonnesPerHour = 0,
\* while theoreticalCyclesPerHour and theoreticalCyclesPerYear stay
\* strictly positive.
C12_ZeroFactors ==
  (/\ ProductivityReturned
   /\ NumberGt0(call.input.cycleTimeSeconds)
   /\ NumberGt0(call.input.payloadTonnes)
   /\ call.input.availability = Zero
   /\ call.input.efficiency = Zero
   /\ call.input.utilization = Zero)
  =>
    /\ result.ok
    /\ result.effectiveFactor = Zero
    /\ result.effectiveCyclesPerYear = Zero
    /\ result.tonnesPerTruckYear = Zero
    /\ result.tonnesPerHour = Zero
    /\ Gt(result.theoreticalCyclesPerHour, Zero)
    /\ Gt(result.theoreticalCyclesPerYear, Zero)

\* a call with the three ratios at 0 has returned zero productivity
C12_Witness ==
  /\ ProductivityDone
  /\ call.input.cycleTimeSeconds = Num(600)
  /\ call.input.payloadTonnes = Num(150)
  /\ call.input.availability = Zero
  /\ call.input.efficiency = Zero
  /\ call.input.utilization = Zero
  /\ result.tonnesPerTruckYear = Zero
  /\ result.theoreticalCyclesPerHour = Num(6)
  /\ result.theoreticalCyclesPerYear = Num(52560)

\* a supplied ratio outside [0,1]
RatioOutOfRange(x) == x # Undefined /\ (Lt(x, Zero) \/ Gt(x, One))

\* a ratio that is omitted or lies in [0,1], the bounds included
RatioAcceptable(x) == x = Undefined \/ (Ge(x, Zero) /\ Le(x, One))

\* the fields the error of a rejected call names
ErrorFields == IF result.ok THEN {} ELSE result.error

\* C13: calculateHaulProductivity rejects with an error and returns no
\* result when cycleTimeSeconds <= 0, payloadTonnes <= 0 or a supplied ratio
\* lies outside [0,1]; the bounds 0 and 1 themselves are accepted.
C13_ProductivityRejects ==
  ProductivityReturned =>
    /\ (\/ NonPositive(call.input.cycleTimeSeconds)
        \/ NonPositive(call.input.payloadTonnes)
        \/ RatioOutOfRange(call.input.availability)
        \/ RatioOutOfRange(call.input.efficiency)
        \/ RatioOutOfRange(call.input.utilization))
       => (~result.ok /\ result.error # {}
           /\ DOMAIN result = {"ok", "error"})
    /\ ("cycleTimeSeconds" \in ErrorFields
          <=> NonPositive(call.input.cycleTimeSeconds))
    /\ ("payloadTonnes" \in ErrorFields
          <=> NonPositive(call.input.payloadTonnes))
    /\ ("availability" \in ErrorFields
          <=> RatioOutOfRange(call.input.availability))
    /\ ("efficiency" \in ErrorFields
          <=> RatioOutOfRange(call.input.efficiency))
    /\ ("utilization" \in ErrorFields
          <=> RatioOutOfRange(call.input.utilization))
    /\ (/\ Gt(call.input.cycleTimeSeconds, Zero)
        /\ Gt(call.input.payloadTonnes, Zero)
        /\ \A x \in {call.input.availability, call.input.efficiency,
                      call.input.utilization} : x \in {Zero, One})
       => result.ok

\* a call whose only fault is a utilization above 1 has been rejected
C13_Witness ==
  /\ ProductivityReturned
  /\ Gt(call.input.cycleTimeSeconds, Zero)
  /\ Gt(call.input.payloadTonnes, Zero)
  /\ call.input.availability = One
  /\ call.input.efficiency = Zero
  /\ RatioOutOfRange(call.input.utilization)
  /\ Gt(call.input.utilization, One)
  /\ result = Failure({"utilization"})

(***************************************************************************)
(* Defaults of the optional fields                                         *)
(***************************************************************************)
FleetReturned == call.fn = "calculateFleetSize" /\ result # Pending

\* the productivity input with every omitted ratio written out
ExplicitRatios(input) ==
  [input EXCEPT !.availability = RatioUsed(@, Rat(90, 100)),
                !.efficiency = RatioUsed(@, Rat(60, 100)),
                !.utilization = RatioUsed(@, Rat(90, 100))]

\* the fleet-sizing input with an omitted production target written out
ExplicitTarget(input) ==
  [input EXCEPT !.totalMineTonnesPerYear = RatioUsed(@, Num(5000000))]

\* C14: in calculateHaulProductivity each of availability, efficiency and
\* utilization defaults on its own when omitted (0.90, 0.60, 0.90): whatever
\* subset is supplied, the outcome is that of the call with the missing
\* ratios set explicitly to their defaults; and calculateFleetSize with
\* totalMineTonnesPerYear omitted gives the outcome of the call with
\* 5,000,000.
C14_IndependentDefaults ==
  /\ ProductivityReturned =>
       result = calculateHaulProductivity(ExplicitRatios(call.input))
  /\ FleetReturned =>
       result = calculateFleetSize(ExplicitTarget(call.input))

\* only the efficiency was supplied, and the other two ratios came out as
\* 0.90 each
C14_Witness ==
  /\ ProductivityDone
  /\ call.input.availability = Undefined
  /\ call.input.efficiency = Rat(1, 4)
  /\ call.input.utilization = Undefined
  /\ result.effectiveFactor = Rat(81, 400)

\* C15: calculateFleetSize rejects with an error and returns no result when
\* tonnesPerTruckYear <= 0 or totalMineTonnesPerYear < 0;
\* totalMineTonnesPerYear = 0 is accepted.
C15_FleetSizeRejects ==
  FleetReturned =>
    /\ (\/ NonPositive(call.input.tonnesPerTruckYear)
        \/ Negative(call.input.totalMineTonnesPerYear))
       => (~result.ok /\ result.error # {}
           /\ DOMAIN result = {"ok", "error"})
    /\ ("tonnesPerTruckYear" \in ErrorFields
          <=> (\/ NonPositive(call.input.tonnesPerTruckYear)
               \/ call.input.tonnesPerTruckYear = Undefined))
    /\ ("totalMineTonnesPerYear" \in ErrorFields
          <=> Negative(call.input.totalMineTonnesPerYear))
    /\ (/\ call.input.totalMineTonnesPerYear = Zero
        /\ Gt(call.input.tonnesPerTruckYear, Zero))
       => (result.ok /\ result.trucksRequired = 0)

\* a call whose only fault is a productivity of 0 has been rejected
C15_Witness ==
  /\ FleetReturned
  /\ call.input.tonnesPerTruckYear = Zero
  /\ call.input.totalMineTonnesPerYear = Zero
  /\ result = Failure({"tonnesPerTruckYear"})

(***************************************************************************)
(* Cost breakdown: properties                                              *)
(***************************************************************************)
CostReturned == call.fn = "calcCostBreakdown" /\ result # Pending

CostDone == call.fn = "calcCostBreakdown" /\ result.ok

\* the fleet size of the row before row k of the call (0 before the first)
PrecedingFleet(k) ==
  IF k = 1 THEN Zero ELSE call.input.drivers[k - 1].fleetSize

\* C3: calcCostBreakdown goes through the drivers in the given sequence
\* order (not by year value); newTrucks of a row is
\* max(0, fleetSize of the row - fleetSize of the preceding row), the
\* preceding fleet size being 0 for the first row; so newTrucks >= 0 in
\* every row, and it is 0 whenever the fleet shrinks or stays equal.
C3_NewTrucks ==
  CostDone =>
    LET drivers == call.input.drivers
        rows == result.rows
    IN  /\ Len(rows) = Len(drivers)
        /\ \A k \in 1..Len(drivers) :
             LET grown == Sub(drivers[k].fleetSize, PrecedingFleet(k))
             IN  /\ rows[k].year = drivers[k].year
                 /\ rows[k].fleetSize = drivers[k].fleetSize
                 /\ rows[k].newTrucks.num >= 0
                 /\ grown.num > 0 => rows[k].newTrucks = grown
                 /\ grown.num <= 0 => rows[k].newTrucks = Zero

\* a sequence in descending year order whose second row has a smaller fleet
\* than its first has zero new trucks in the second row
C3_Witness ==
  /\ CostDone
  /\ Len(call.input.drivers) >= 2
  /\ Lt(call.input.drivers[2].year, call.input.drivers[1].year)
  /\ Lt(call.input.drivers[2].fleetSize, call.input.drivers[1].fleetSize)
  /\ result.rows[2].newTrucks = Zero
  /\ result.rows[1].newTrucks = call.input.drivers[1].fleetSize

\* C4: capexDeployment is deploymentOneTimeEUR in the first row and 0 in
\* every later row; capexFms is fmsDeploymentOneTimeEUR + fmsHwOneTimeEUR in
\* the first row when includeFMS is true, and 0 in every other row and
\* whenever includeFMS is false; this holds for every sequence length and
\* also when the first row has fleetSize = 0.
C4_OneTimeCosts ==
  CostDone =>
    LET model == call.input.model
        rows == result.rows
        fmsOneTime ==
          Add(model.fmsDeploymentOneTimeEUR, model.fmsHwOneTimeEUR)
    IN  \A k \in 1..Len(rows) :
          /\ rows[k].capexDeployment =
               (IF k = 1 THEN model.deploymentOneTimeEUR ELSE Zero)
          /\ rows[k].capexFms =
               (IF k = 1 /\ model.includeFMS THEN fmsOneTime ELSE Zero)

\* with FMS included, a first row with fleetSize 0 carries both one-time
\* charges and the second row carries none
C4_Witness ==
  /\ CostDone
  /\ call.input.model.includeFMS
  /\ Len(result.rows) >= 2
  /\ call.input.drivers[1].fleetSize = Zero
  /\ Gt(result.rows[1].capexDeployment, Zero)
  /\ Gt(result.rows[1].capexFms, Zero)
  /\ result.rows[2].capexDeployment = Zero
  /\ result.rows[2].capexFms = Zero

\* a = b * c, over the integers
IsProduct(a, b, c) == a.num * (b.den * c.den) = (b.num * c.num) * a.den

\* a = b + c, over the integers
IsSum(a, b, c) ==
  a.num * (b.den * c.den) = (b.num * c.den + c.num * b.den) * a.den

\* C16: in calcCostBreakdown, opexFmsLicenseEUR equals fmsAnnualLicenseEUR in
\* every row (not only the first) when includeFMS is true and 0 in every row
\* when it is false; opexTruckLicenseEUR = fleetSize * truckLicenseEURPerYear
\* and opexTotalEUR is the sum of the two; so a row with kmPerYear = 0 has
\* zero SEK costs while its EUR capex and license costs are what the fleet
\* alone makes them.
C16_AnnualOpex ==
  CostDone =>
    LET model == call.input.model
        drivers == call.input.drivers
        rows == result.rows
    IN  \A k \in 1..Len(rows) :
          /\ rows[k].opexFmsLicenseEUR =
               (IF model.includeFMS THEN model.fmsAnnualLicenseEUR ELSE Zero)
          /\ IsProduct(rows[k].opexTruckLicenseEUR, drivers[k].fleetSize,
                       model.truckLicenseEURPerYear)
          /\ IsSum(rows[k].opexTotalEUR, rows[k].opexTruckLicenseEUR,
                   rows[k].opexFmsLicenseEUR)
          /\ drivers[k].kmPerYear = Zero =>
               /\ rows[k].opexServiceSEK = Zero
               /\ rows[k].opexFuelSEK = Zero
               /\ rows[k].opexTotalSEK = Zero
               /\ IsProduct(rows[k].capexTrucks, rows[k].newTrucks,
                            model.truckPriceEUR)
               /\ IsSum(rows[k].capexTotalEUR, rows[k].capexTrucks,
                        Add(rows[k].capexDeployment, rows[k].capexFms))
               /\ IsSum(rows[k].totalCostEUR, rows[k].capexTotalEUR,
                        rows[k].opexTotalEUR)

\* with FMS included, a second row that drives no kilometre carries the
\* annual FMS license and the truck licenses, and no SEK cost
C16_Witness ==
  /\ CostDone
  /\ call.input.model.includeFMS
  /\ Len(result.rows) >= 2
  /\ call.input.drivers[2].kmPerYear = Zero
  /\ Gt(call.input.drivers[2].fleetSize, Zero)
  /\ Gt(call.input.drivers[1].kmPerYear, Zero)
  /\ result.rows[2].opexFmsLicenseEUR = call.input.model.fmsAnnualLicenseEUR
  /\ Gt(result.rows[2].opexFmsLicenseEUR, Zero)
  /\ Gt(result.rows[2].opexTruckLicenseEUR, Zero)
  /\ result.rows[2].opexTotalSEK = Zero
  /\ Gt(result.rows[1].opexTotalSEK, Zero)

\* C5: every row satisfies totalCostSEK = totalCostEUR * fxSEKPerEUR exactly.
C5_CurrencyIdentity ==
  CostDone =>
    LET fx == call.input.model.fxSEKPerEUR
    IN  \A k \in 1..Len(result.rows) :
          LET eur == result.rows[k].totalCostEUR
              sek == result.rows[k].totalCostSEK
          IN  sek.num * (eur.den * fx.den) = (eur.num * fx.num) * sek.den

\* a row with distance-driven costs under a fractional FX rate
C5_Witness ==
  /\ CostDone
  /\ ~IsInt(call.input.model.fxSEKPerEUR)
  /\ \E k \in 1..Len(result.rows) :
       /\ Gt(result.rows[k].opexTotalSEK, Zero)
       /\ Gt(result.rows[k].capexTotalEUR, Zero)
       /\ ~IsInt(result.rows[k].totalCostEUR)

\* the sum of field f over the rows, taken from the last row backwards
RECURSIVE SumBackwards(_, _, _)
SumBackwards(rows, f, k) ==
  IF k = 0 THEN Zero ELSE Add(rows[k][f], SumBackwards(rows, f, k - 1))

RowSum(f) == SumBackwards(result.rows, f, Len(result.rows))

\* C6: the periodTotals are the sums over all rows of the rows' cost fields,
\* capexOneTimeEUR being the sum of capexDeployment + capexFms; for an empty
\* driver sequence rows is empty and every period total is 0.
C6_PeriodTotals ==
  CostDone =>
    LET t == result.periodTotals
    IN  /\ t.capexTrucksEUR = RowSum("capexTrucks")
        /\ t.capexOneTimeEUR = Add(RowSum("capexDeployment"), RowSum("capexFms"))
        /\ t.capexTotalEUR = RowSum("capexTotalEUR")
        /\ t.opexTotalEUR = RowSum("opexTotalEUR")
        /\ t.opexTotalSEK = RowSum("opexTotalSEK")
        /\ t.totalCostEUR = RowSum("totalCostEUR")
        /\ t.totalCostSEK = RowSum("totalCostSEK")
        /\ DOMAIN t = {"capexTrucksEUR", "capexOneTimeEUR", "capexTotalEUR",
                       "opexTotalEUR", "opexTotalSEK", "totalCostEUR",
                       "totalCostSEK"}
        /\ call.input.drivers = <<>> =>
             /\ result.rows = <<>>
             /\ \A f \in DOMAIN t : t[f] = Zero

\* three rows with FMS included: the one-time total is above the deployment
\* fee and the cost total is above that of any single row
C6_Witness ==
  /\ CostDone
  /\ call.input.model.includeFMS
  /\ Len(result.rows) >= 3
  /\ Gt(result.periodTotals.capexOneTimeEUR,
        call.input.model.deploymentOneTimeEUR)
  /\ \A k \in 1..Len(result.rows) :
       Gt(result.periodTotals.totalCostEUR, result.rows[k].totalCostEUR)

\* C7: calcCostBreakdown fails with an error and returns neither rows nor
\* totals whenever fxSEKPerEUR <= 0, or a numeric cost-model field is
\* negative (the three FMS fees also while includeFMS is false), or a driver
\* row at any position has a negative fleetSize or a negative kmPerYear; a
\* bad row after valid rows still yields no partial result.
C7_CostRejects ==
  CostReturned =>
    LET model == call.input.model
        drivers == call.input.drivers
        invalid ==
          \/ model.fxSEKPerEUR.num <= 0
          \/ \E f \in {"truckPriceEUR", "truckLicenseEURPerYear",
                       "fmsAnnualLicenseEUR", "fmsDeploymentOneTimeEUR",
                       "fmsHwOneTimeEUR", "serviceSEKPerKm", "fuelSEKPerKm",
                       "deploymentOneTimeEUR"} : model[f].num < 0
          \/ \E k \in 1..Len(drivers) :
               drivers[k].fleetSize.num < 0 \/ drivers[k].kmPerYear.num < 0
    IN  invalid => /\ ~result.ok
                   /\ DOMAIN result = {"ok", "error"}
                   /\ result.error # {}

\* a valid model and a valid first row followed by a row with a negative
\* kmPerYear: the call has failed
C7_Witness ==
  /\ CostReturned
  /\ call.input.model \in ValidCostModels
  /\ Len(call.input.drivers) >= 2
  /\ call.input.drivers[1].fleetSize.num >= 0
  /\ call.input.drivers[1].kmPerYear.num >= 0
  /\ call.input.drivers[2].fleetSize.num >= 0
  /\ call.input.drivers[2].kmPerYear.num < 0
  /\ result = Failure({"kmPerYear must not be negative"})

(***************************************************************************)
(* Session: properties                                                     *)
(***************************************************************************)
\* the browser holds a session cookie that is the text of a user
HoldsSession(c) ==
  \E k \in 1..Len(USERS) :
    cookie[c] =
      "{\"id\":\"" \o USERS[k].id \o "\",\"username\":\"" \o USERS[k].username
        \o "\",\"displayName\":\"" \o USERS[k].displayName \o "\"}"

\* a well-formed login body that names no user with that password
WrongCredentials(json) ==
  /\ json.kind = "object"
  /\ json.username # "" /\ json.password # ""
  /\ ~(json.username = "demo" /\ json.password = "demo123")

\* C17: the home page is served only to a request that carries a session
\* cookie parsing to a user.  A browser holds such a cookie exactly from a
\* successful login until its next logout, so the home page is served after
\* a successful login, and from a logout on every request for it is
\* redirected to /login until a new successful login; a login attempt with
\* wrong credentials is answered 401 and sets no session.
C17_HomePageNeedsSession ==
  /\ \A c \in Clients : loggedIn[c] <=> HoldsSession(c)
  /\ call.fn = "GET /" =>
       IF loggedIn[call.client]
       THEN result.status = 200 /\ result.page = "home"
       ELSE result.status = 307 /\ result.location = "/login"
  /\ (call.fn = "POST /api/auth/login" /\ WrongCredentials(call.input)) =>
       result.status = 401
  /\ call.fn = "POST /api/auth/logout" => ~loggedIn[call.client]
  /\ call.fn = "POST /api/auth/login" =>
       (result.status = 200 <=>
          (call.input.kind = "object" /\ call.input.username = "demo"
             /\ call.input.password = "demo123"))

\* one browser is served the home page after its login while the other,
\* without a session, is not logged in
C17_Witness ==
  /\ call.fn = "GET /"
  /\ result.status = 200
  /\ result.displayName = "Demo User"
  /\ loggedIn[call.client]
  /\ \E c \in Clients : ~loggedIn[c] /\ cookie[c] = ""

Recalculated ==
  /\ ui # Unmounted
  /\ IF ui.mode = "dynamic" THEN ui.timers = {} ELSE ~ui.pendingCalculation

\* the fleet of the threshold rule for raw trucks n/d and a target of
\* tonnes: floor, one more from a fractional part of 0.20, and never 0 for
\* a positive target
TrucksFor(raw, tonnes) ==
  LET floorValue == raw.num \div raw.den
      rounded ==
        IF 5 * (raw.num % raw.den) >= raw.den
        THEN floorValue + 1
        ELSE floorValue
  IN  IF tonnes.num > 0 /\ rounded = 0 THEN 1 ELSE rounded

\* C19: when a multi-year production plan is sized, each year's rawTrucks
\* and trucksRequired depend only on that row's tonnesPerYear and the shared
\* tonnesPerTruckYear, whatever the other rows are, and yearlyFleet has one
\* entry per plan row in plan order.
C19_RowsSizedIndependently ==
  (ui # Unmounted /\ ui.results # Null) =>
    LET yearlyFleet == ui.results.yearlyFleet
        shared == ui.results.tonnesPerTruckYear
    IN  /\ \A k \in 1..Len(yearlyFleet) :
             /\ yearlyFleet[k].rawTrucks =
                  Div(yearlyFleet[k].tonnesPerYear, shared)
             /\ yearlyFleet[k].trucksRequired =
                  TrucksFor(yearlyFleet[k].rawTrucks,
                            yearlyFleet[k].tonnesPerYear)
        /\ \A j, k \in 1..Len(yearlyFleet) :
             yearlyFleet[j].tonnesPerYear = yearlyFleet[k].tonnesPerYear =>
               /\ yearlyFleet[j].rawTrucks = yearlyFleet[k].rawTrucks
               /\ yearlyFleet[j].trucksRequired =
                    yearlyFleet[k].trucksRequired
        /\ Recalculated =>
             /\ Len(yearlyFleet) = Len(ui.productionPlan)
             /\ \A k \in 1..Len(yearlyFleet) :
                  /\ yearlyFleet[k].year = ui.productionPlan[k].year
                  /\ yearlyFleet[k].tonnesPerYear =
                       ui.productionPlan[k].tonnesPerYear

\* a plan whose target falls from its first year to its second is sized
\* year by year, in plan order: six trucks, then five
C19_Witness ==
  /\ ui # Unmounted /\ ui.results # Null
  /\ Recalculated
  /\ Len(ui.results.yearlyFleet) = 2
  /\ ui.results.yearlyFleet[1].year = 2026
  /\ ui.results.yearlyFleet[1].tonnesPerYear = Num(6000000)
  /\ ui.results.yearlyFleet[1].trucksRequired = 6
  /\ ui.results.yearlyFleet[2].year = 2027
  /\ ui.results.yearlyFleet[2].tonnesPerYear = Num(5000000)
  /\ ui.results.yearlyFleet[2].trucksRequired = 5

\* the three operational factors are at 0
ZeroOperationalFactors ==
  /\ ui.availabilityPercent = Zero
  /\ ui.efficiencyPercent = Zero
  /\ ui.utilizationPercent = Zero

\* C20: in the pipeline the calculator runs (cycle time, productivity, fleet
\* size per year), zero operational factors produce no error: results are
\* still produced and no error is displayed.
C20_ZeroFactorsNoError ==
  (Recalculated /\ ZeroOperationalFactors) =>
    /\ ui.results # Null
    /\ ui.error = {}

(***************************************************************************)
(* Cost breakdown: which error is reported                                 *)
(***************************************************************************)
\* the cost-model fields in the order the validation visits them
CostFieldOrder ==
  <<"truckPriceEUR", "truckLicenseEURPerYear", "fmsAnnualLicenseEUR",
    "fmsDeploymentOneTimeEUR", "fmsHwOneTimeEUR", "serviceSEKPerKm",
    "fuelSEKPerKm", "deploymentOneTimeEUR">>

NegativeFieldPositions(model) ==
  {k \in 1..Len(CostFieldOrder) : model[CostFieldOrder[k]].num < 0}

BadDriverRows(drivers) ==
  {k \in 1..Len(drivers) :
     drivers[k].fleetSize.num < 0 \/ drivers[k].kmPerYear.num < 0}

Least(S) == CHOOSE k \in S : \A j \in S : k <= j

\* C21: the error of calcCostBreakdown names the offending field with a
\* fixed precedence: fxSEKPerEUR <= 0 is reported as the FX-rate error even
\* when other model fields or driver rows are invalid too; otherwise the
\* first negative model field is named; otherwise the first offending
\* driver row in sequence order is reported, fleetSize before kmPerYear.
C21_ErrorPrecedence ==
  CostReturned =>
    LET model == call.input.model
        drivers == call.input.drivers
    IN  IF model.fxSEKPerEUR.num <= 0
        THEN result =
               Failure({"FX rate (SEK per EUR) must be greater than 0"})
        ELSE IF NegativeFieldPositions(model) # {}
        THEN result =
               Failure({CostFieldOrder[Least(NegativeFieldPositions(model))]
                          \o " must not be negative"})
        ELSE IF BadDriverRows(drivers) # {}
        THEN result =
               Failure({IF drivers[Least(BadDriverRows(drivers))]
                             .fleetSize.num < 0
                        THEN "fleetSize must not be negative"
                        ELSE "kmPerYear must not be negative"})
        ELSE result.ok

\* an FX rate of 0 is reported although the truck price is negative and a
\* driver row is negative in both fields
C21_Witness ==
  /\ CostReturned
  /\ call.input.model.fxSEKPerEUR = Zero
  /\ call.input.model.truckPriceEUR = Num(-1)
  /\ Len(call.input.drivers) >= 2
  /\ call.input.drivers[2].fleetSize = Num(-1)
  /\ call.input.drivers[2].kmPerYear = Num(-5)
  /\ result = Failure({"FX rate (SEK per EUR) must be greater than 0"})

(***************************************************************************)
(* Fleet sizing: order and bounds                                          *)
(***************************************************************************)
\* the production target the call works with
TargetUsed ==
  IF call.input.totalMineTonnesPerYear = Undefined
  THEN Num(5000000)
  ELSE call.input.totalMineTonnesPerYear

\* the fleet of a call with the same tonnesPerTruckYear and the target t
FleetAt(t) ==
  calculateFleetSize([totalMineTonnesPerYear |-> t,
                      tonnesPerTruckYear |-> call.input.tonnesPerTruckYear])

\* C26: for a fixed tonnesPerTruckYear, the trucksRequired of
\* calculateFleetSize is non-decreasing in totalMineTonnesPerYear: no lower
\* production target needs more trucks than the one of the call.
C26_FleetMonotone ==
  FleetDone =>
    \A t \in TotalMineTonnesValues :
      (t # Undefined /\ Ge(t, Zero) /\ Le(t, TargetUsed)) =>
        /\ FleetAt(t).ok
        /\ FleetAt(t).trucksRequired <= result.trucksRequired

\* 1.2 million tonnes need two trucks of a million tonnes a year, a target
\* 10 000 tonnes lower needs one, and the smallest positive target needs one
C26_Witness ==
  /\ FleetDone
  /\ call.input.tonnesPerTruckYear = Num(1000000)
  /\ call.input.totalMineTonnesPerYear = Num(1200000)
  /\ result.trucksRequired = 2
  /\ FleetAt(Num(1190000)).trucksRequired = 1
  /\ FleetAt(Num(1)).trucksRequired = 1
  /\ FleetAt(Zero).trucksRequired = 0

TrucksBought(p) == SumBackwards(result.rows, "newTrucks", p)

NonDecreasingUpTo(p) ==
  \A j \in 1..(p - 1) :
    Le(result.rows[j].fleetSize, result.rows[j + 1].fleetSize)

ShrinksThenGrowsUpTo(p) ==
  \E i, j, k \in 1..p :
    /\ i < j /\ j < k
    /\ Gt(result.rows[i].fleetSize, result.rows[j].fleetSize)
    /\ Lt(result.rows[j].fleetSize, result.rows[k].fleetSize)

\* C28: in the rows of calcCostBreakdown, for every prefix of the driver
\* sequence the sum of newTrucks over the prefix is at least the largest
\* fleetSize of the prefix; it equals the last fleetSize when the fleet
\* sizes are non-decreasing, and exceeds the peak fleetSize when the fleet
\* shrinks and later grows again.
C28_TrucksBoughtCoverFleet ==
  CostDone =>
    \A p \in 1..Len(result.rows) :
      /\ \A j \in 1..p : Ge(TrucksBought(p), result.rows[j].fleetSize)
      /\ NonDecreasingUpTo(p) => TrucksBought(p) = result.rows[p].fleetSize
      /\ ShrinksThenGrowsUpTo(p) =>
           \A j \in 1..p : Gt(TrucksBought(p), result.rows[j].fleetSize)

\* a fleet of 2, 1 and 2 trucks buys three trucks, one more than its peak
C28_Witness ==
  /\ CostDone
  /\ Len(result.rows) = 3
  /\ result.rows[1].fleetSize = Num(2)
  /\ result.rows[2].fleetSize = Num(1)
  /\ result.rows[3].fleetSize = Num(2)
  /\ TrucksBought(1) = Num(2)
  /\ TrucksBought(2) = Num(2)
  /\ TrucksBought(3) = Num(3)

\* the call's model with other FMS fees
WithFmsFees(fees) ==
  [call.input.model EXCEPT !.fmsAnnualLicenseEUR = fees[1],
                           !.fmsDeploymentOneTimeEUR = fees[2],
                           !.fmsHwOneTimeEUR = fees[3]]

OtherFmsFees == FmsFeeValues \cup {<<Zero, Zero, Zero>>}

\* C29: when includeFMS is false, the rows and periodTotals of
\* calcCostBreakdown do not depend on fmsAnnualLicenseEUR,
\* fmsDeploymentOneTimeEUR or fmsHwOneTimeEUR: a valid model that differs
\* only in non-negative values of these fields gives the same result for
\* the same drivers.
C29_FmsFeesIgnoredWithoutFms ==
  (CostDone /\ ~call.input.model.includeFMS) =>
    \A fees \in OtherFmsFees :
      LET other == calcCostBreakdown(WithFmsFees(fees), call.input.drivers)
      IN  /\ other.ok
          /\ other.rows = result.rows
          /\ other.periodTotals = result.periodTotals

\* a two-year plan without FMS costs the same whatever the FMS fees are,
\* and something else once the FMS is included
C29_Witness ==
  /\ CostDone
  /\ ~call.input.model.includeFMS
  /\ call.input.model.fmsAnnualLicenseEUR = Num(100)
  /\ Len(call.input.drivers) = 2
  /\ calcCostBreakdown(WithFmsFees(<<Num(70), Zero, Num(30)>>),
                       call.input.drivers) = result
  /\ calcCostBreakdown([call.input.model EXCEPT !.includeFMS = TRUE],
                       call.input.drivers).rows # result.rows

(***************************************************************************)
(* The calculator after a recalculation                                    *)
(***************************************************************************)
\* a step that runs performCalculation; such a step leaves the mode and
\* the inputs alone, which is stated first to settle all other steps early
Recalculation ==
  /\ ui'.mode = ui.mode
  /\ Inputs(ui') = Inputs(ui)
  /\ (\E inputs \in ui.timers : TimerFires(inputs)) \/ OnCalculate

\* the inputs the recalculation of this step runs on
RecalculationInputs ==
  IF ui.mode = "static" THEN Inputs(ui) ELSE CHOOSE t \in ui.timers : TRUE

\* some stage of the pipeline throws on these inputs
SomeStageFails(inputs) ==
  LET cycle ==
        calculateHaulCycleTime(
          [distanceLoaded |->
             MathRound(Mul(inputs.haulCycle.distanceLoadedKm, Num(1000))),
           distanceUnloaded |->
             MathRound(Mul(inputs.haulCycle.distanceUnloadedKm, Num(1000))),
           speedLoaded |-> inputs.haulCycle.speedLoaded,
           speedUnloaded |-> inputs.haulCycle.speedUnloaded,
           loadingTime |-> inputs.haulCycle.loadingTime,
           unloadingTime |-> inputs.haulCycle.unloadingTime])
  IN  \/ ~cycle.ok
      \/ LET productivity ==
               calculateHaulProductivity(
                 [cycleTimeSeconds |-> cycle.cycleTimeSeconds,
                  payloadTonnes |-> inputs.payloadTonnes,
                  availability |-> Div(inputs.availabilityPercent, Num(100)),
                  efficiency |-> Div(inputs.efficiencyPercent, Num(100)),
                  utilization |-> Div(inputs.utilizationPercent, Num(100))])
         IN  \/ ~productivity.ok
             \/ \E k \in 1..Len(inputs.productionPlan) :
                  ~calculateFleetSize(
                     [totalMineTonnesPerYear |->
                        inputs.productionPlan[k].tonnesPerYear,
                      tonnesPerTruckYear |->
                        productivity.tonnesPerTruckYear]).ok

\* C22: after a recalculation that fails in any stage of the pipeline the
\* results are null, an error message is set and there is no cost
\* breakdown, so that no results of an earlier calculation stand next to
\* the error; after a recalculation that succeeds the results are not null
\* and the error is null.
C22_RecalculationOutcome ==
  [][Recalculation =>
       IF SomeStageFails(RecalculationInputs)
       THEN /\ ui'.results = Null
            /\ ui'.error # {}
            /\ ~HasCostBreakdown(ui')
       ELSE /\ ui'.results # Null
            /\ ui'.error = {}]_vars

\* the factors were set to zero after a calculation that succeeded, and the
\* recalculation has failed
C22_Witness ==
  /\ ui # Unmounted
  /\ ui.availabilityPercent = Zero
  /\ ui.timers = {}
  /\ ui.mode = "dynamic"
  /\ ui.results = Null
  /\ ui.error = {"tonnesPerTruckYear"}
  /\ ~HasCostBreakdown(ui)

(***************************************************************************)
(* The calculator: Live and Manual mode                                    *)
(***************************************************************************)
\* a step that changes an input of the calculation
InputChange == Inputs(ui') # Inputs(ui)

\* results and error are those of a calculation on the inputs of the state
UpToDate ==
  /\ ui.results = performCalculation(ui).results
  /\ ui.error = performCalculation(ui).error

\* C23: in Live (dynamic) mode every input change schedules exactly one
\* recalculation and cancels the one still pending, so that at most one
\* recalculation is pending at any time, no recalculation runs on inputs
\* that have been superseded, and once the inputs stop changing the results
\* are eventually those of the latest inputs (a pending recalculation
\* eventually is pending no more, and with none pending the results in Live
\* mode are those of the inputs of the moment); in Manual (static)
\* mode an input change runs no calculation and only sets
\* pendingCalculation, which the next calculation that succeeds resets.
C23_LiveAndManual ==
  /\ [](/\ Cardinality(ui.timers) <= 1
        /\ \A inputs \in ui.timers : inputs = Inputs(ui)
        /\ ui.mode = "static" => ui.timers = {}
        /\ (ui.mode = "dynamic" /\ ui.timers = {}) => UpToDate)
  /\ [][InputChange =>
          /\ ui'.mode = ui.mode
          /\ ui'.results = ui.results
          /\ ui'.error = ui.error
          /\ ui'.computedFrom = ui.computedFrom
          /\ IF ui.mode = "dynamic"
             THEN /\ ui'.timers = {Inputs(ui')}
                  /\ ui'.pendingCalculation = ui.pendingCalculation
             ELSE /\ ui'.timers = {}
                  /\ ui'.pendingCalculation]_vars
  /\ [][(Recalculation /\ ui'.results # Null) =>
          ~ui'.pendingCalculation]_vars
  /\ (ui.mode = "dynamic" /\ ui.timers # {}) ~> (ui.timers = {})

\* in Live mode the results on display are those of earlier inputs, and one
\* recalculation on the inputs of the moment is pending
C23_Witness ==
  /\ ui # Unmounted
  /\ ui.mode = "dynamic"
  /\ ui.results # Null
  /\ ui.computedFrom # ui.haulCycle
  /\ ~UpToDate
  /\ ui.timers = {Inputs(ui)}
  /\ ui.haulCycle.distanceLoadedKm = Num(2)
  /\ ui.productionPlan[1].tonnesPerYear = Num(6000000)

(***************************************************************************)
(* The calculator: the cost breakdown next to the results                  *)
(***************************************************************************)
\* the kilometres a truck drives in a year over the haul distances the
\* results were computed from
KmPerTruckYearOfResults ==
  Mul(Add(ui.computedFrom.distanceLoadedKm,
          ui.computedFrom.distanceUnloadedKm),
      Mul(Div(Num(365 * 24 * 3600), ui.results.cycleTimeSeconds),
          ui.results.effectiveFactor))

\* C30: whenever the calculator shows a cost breakdown, in Live and in
\* Manual mode, each driver has the fleetSize of that year's trucksRequired
\* and a kmPerYear derived from the haul distances, cycle time and
\* effective factor that produced the results on display, never from haul
\* distances edited after the results were computed.
C30_BreakdownOfDisplayedResults ==
  (ui # Unmounted /\ HasCostBreakdown(ui)) =>
    /\ Len(BreakdownDrivers(ui)) = Len(ui.results.yearlyFleet)
    /\ \A k \in 1..Len(ui.results.yearlyFleet) :
         /\ BreakdownDrivers(ui)[k].year = ui.results.yearlyFleet[k].year
         /\ BreakdownDrivers(ui)[k].fleetSize =
              Num(ui.results.yearlyFleet[k].trucksRequired)
         /\ BreakdownDrivers(ui)[k].kmPerYear =
              Mul(Num(ui.results.yearlyFleet[k].trucksRequired),
                  KmPerTruckYearOfResults)

(***************************************************************************)
(* The calculator: saving a scenario                                       *)
(***************************************************************************)
\* a step of onSaveScenario; such a step leaves the inputs and the results
\* alone, which is stated first to settle all other steps early
SaveStep ==
  /\ Inputs(ui') = Inputs(ui)
  /\ ui'.results = ui.results
  /\ \E now \in NowValues, stored \in BOOLEAN : OnSaveScenario(now, stored)

\* the name has a character that is not a space
NameGiven == \E k \in 1..Len(ui.scenarioName) : ui.scenarioName[k] # " "

\* the name without the spaces around it
NameWithoutMargins(name) ==
  \E before, after \in 0..Len(ui.scenarioName) :
    /\ before + Len(name) + after = Len(ui.scenarioName)
    /\ \A k \in 1..Len(ui.scenarioName) :
         IF k <= before \/ k > before + Len(name)
         THEN ui.scenarioName[k] = " "
         ELSE ui.scenarioName[k] = name[k - before]
    /\ name[1] # " "
    /\ name[Len(name)] # " "

StoredIds(b) == {getAll(b)[k].id : k \in 1..Len(getAll(b))}

\* C24: saving a scenario from the calculator succeeds only when the
\* trimmed scenario name is not empty and the results are not null;
\* otherwise an error message is set and the stored scenario list is
\* unchanged. A save that succeeds appends exactly one scenario with a
\* fresh id to the stored list, leaves the scenarios in it unchanged, and
\* clears the name field.
C24_SaveScenario ==
  [][SaveStep =>
       IF getAll(browser') # getAll(browser)
       THEN /\ NameGiven
            /\ ui.results # Null
            /\ Len(getAll(browser')) = Len(getAll(browser)) + 1
            /\ SubSeq(getAll(browser'), 1, Len(getAll(browser)))
                 = getAll(browser)
            /\ LET added == getAll(browser')[Len(getAll(browser'))]
               IN  /\ added.id \notin StoredIds(browser)
                   /\ added.id > browser.uuids
                   /\ NameWithoutMargins(added.name)
                   /\ added.tonnesPerTruckYear = ui.results.tonnesPerTruckYear
            /\ ui'.scenarios = getAll(browser')
            /\ ui'.scenarioName = <<>>
            /\ ui'.error = {}
       ELSE /\ ui'.error # {}
            /\ ui'.scenarios = ui.scenarios
            /\ ui'.scenarioName = ui.scenarioName]_vars

\* one scenario has been saved, and a save under a name of spaces has been
\* turned down
C24_Witness ==
  /\ ui # Unmounted
  /\ Len(ui.scenarios) = 1
  /\ ui.scenarios[1].name = <<"B">>
  /\ getAll(browser) = ui.scenarios
  /\ ui.scenarioName = <<" ">>
  /\ ui.results # Null
  /\ ui.error = {"Please enter a scenario name."}

(***************************************************************************)
(* The scenario repository: save, delete, getAll, getById                  *)
(***************************************************************************)
\* the list with the scenario at position p taken out
Without(scenarios, p) ==
  SubSeq(scenarios, 1, p - 1) \o SubSeq(scenarios, p + 1, Len(scenarios))

\* C25: after any sequence of save and delete operations getAll returns the
\* scenarios saved and not deleted, in the order of saving; every scenario
\* has a distinct id; getById(id) returns the scenario saved with that id
\* until it is deleted; delete(id) removes exactly the scenario with that id
\* and leaves all others unchanged, and changes nothing for an unknown id.
C25_Repository ==
  /\ [](\A i, j \in 1..Len(getAll(browser)) :
          i # j => getAll(browser)[i].id # getAll(browser)[j].id)
  /\ [][call'.fn = "save" =>
          IF result'.ok
          THEN /\ getAll(browser') = Append(getAll(browser), result'.value)
               /\ result'.value.id \notin StoredIds(browser)
               /\ \A f \in DOMAIN call'.input :
                    result'.value[f] = call'.input[f]
               /\ getById(browser', result'.value.id) = result'.value
          ELSE getAll(browser') = getAll(browser)]_vars
  /\ [][call'.fn = "delete" =>
          IF result'.ok /\ call'.input \in StoredIds(browser)
          THEN /\ \E p \in 1..Len(getAll(browser)) :
                    /\ getAll(browser)[p].id = call'.input
                    /\ getAll(browser') = Without(getAll(browser), p)
               /\ getById(browser', call'.input) = Undefined
          ELSE getAll(browser') = getAll(browser)]_vars
  /\ [][\A id \in StoredIds(browser) :
          (call'.fn = "delete" => call'.input # id) =>
            getById(browser', id) = getById(browser, id)]_vars
  /\ [][call'.fn = "getAll" =>
          /\ result'.value = getAll(browser)
          /\ browser' = browser]_vars
  /\ [][call'.fn = "getById" =>
          /\ browser' = browser
          /\ IF call'.input \in StoredIds(browser)
             THEN /\ result'.value # Undefined
                  /\ result'.value.id = call'.input
                  /\ \E k \in 1..Len(getAll(browser)) :
                       result'.value = getAll(browser)[k]
             ELSE result'.value = Undefined]_vars

\* two scenarios were saved and the first was deleted: getById finds the
\* second, which is all that getAll returns
C25_Witness ==
  /\ call.fn = "getById"
  /\ call.input = 2
  /\ result.ok
  /\ result.value # Undefined
  /\ result.value.id = 2
  /\ result.value.name = <<"B">>
  /\ getAll(browser) = <<result.value>>
  /\ getById(browser, 1) = Undefined
  /\ browser.uuids = 2

====
